---- MODULE Spec2Model ----
(***************************************************************************)
(* Streaming speech-recognition client of the voice tools:                 *)
(*   src/simple_voice_recorder.py   realtime tool (sender/receiver tasks)  *)
(*   src/voice_recorder_bigmodel.py batch tool (lock-step per chunk)       *)
(* The frame codec (generate_header, parse_response) is modelled on byte   *)
(* sequences; the two sessions are modelled as state machines whose atomic *)
(* steps are the stretches of code between two awaits.                     *)
(***************************************************************************)
EXTENDS Integers, Sequences, FiniteSets, TLC

(***************************************************************************)
(* Protocol constants                                                      *)
(***************************************************************************)
PROTOCOL_VERSION == 1
FULL_CLIENT_REQUEST == 1
AUDIO_ONLY_REQUEST == 2
FULL_SERVER_RESPONSE == 9
SERVER_ACK == 11
SERVER_ERROR_RESPONSE == 15

NO_SEQUENCE == 0
POS_SEQUENCE == 1
NEG_SEQUENCE == 2
NEG_WITH_SEQUENCE == 3

NO_SERIALIZATION == 0
JSON == 1
NO_COMPRESSION == 0
GZIP == 1

HEADER_SIZE == 1

(***************************************************************************)
(* Bytes and integers.  A byte string is a sequence of numbers 0..255.     *)
(***************************************************************************)
RECURSIVE BitOr(_, _)
\* a | b on naturals
BitOr(a, b) ==
    IF a = 0 THEN b
    ELSE IF b = 0 THEN a
    ELSE (IF a % 2 = 1 \/ b % 2 = 1 THEN 1 ELSE 0) + 2 * BitOr(a \div 2, b \div 2)

RECURSIVE BitAnd(_, _)
\* a & b on naturals
BitAnd(a, b) ==
    IF a = 0 \/ b = 0 THEN 0
    ELSE (IF a % 2 = 1 /\ b % 2 = 1 THEN 1 ELSE 0) + 2 * BitAnd(a \div 2, b \div 2)

\* a << 4 and a >> 4
Shl4(a) == a * 16
Shr4(a) == a \div 16

\* s[n:] of Python
SliceFrom(s, n) == IF n >= Len(s) THEN <<>> ELSE SubSeq(s, n + 1, Len(s))

\* s[:n] of Python
SliceTo(s, n) == IF n >= Len(s) THEN s ELSE SubSeq(s, 1, n)

\* n.to_bytes(4, 'big') for 0 <= n < 2^31
to_bytes_unsigned(n) ==
    << (n \div 16777216) % 256, (n \div 65536) % 256, (n \div 256) % 256, n % 256 >>

\* n.to_bytes(4, 'big', signed=True): two's complement of a negative n is the
\* bitwise complement of -n-1
to_bytes_signed(n) ==
    IF n >= 0 THEN to_bytes_unsigned(n)
    ELSE LET m == to_bytes_unsigned((-n) - 1)
         IN  << 255 - m[1], 255 - m[2], 255 - m[3], 255 - m[4] >>

\* int.from_bytes(b, "big", signed=False) of 4 bytes (b[1] < 128 in every
\* frame of the model, so the value stays below 2^31)
from_bytes_unsigned(b) == b[1] * 16777216 + b[2] * 65536 + b[3] * 256 + b[4]

\* int.from_bytes(b, "big", signed=True) of 4 bytes
from_bytes_signed(b) ==
    IF b[1] < 128 THEN from_bytes_unsigned(b)
    ELSE (-from_bytes_unsigned(<< 255 - b[1], 255 - b[2], 255 - b[3], 255 - b[4] >>)) - 1

(***************************************************************************)
(* gzip and JSON, as far as the protocol looks at them.                    *)
(* gzip: a member is the two magic bytes, the data, and a trailer holding  *)
(* the data's length; anything else does not decompress.                   *)
(***************************************************************************)
GZIP_MAGIC_1 == 31
GZIP_MAGIC_2 == 139

gzip_compress(data) == << GZIP_MAGIC_1, GZIP_MAGIC_2 >> \o data \o << Len(data) % 256 >>

gzip_wellformed(b) ==
    /\ Len(b) >= 3
    /\ b[1] = GZIP_MAGIC_1
    /\ b[2] = GZIP_MAGIC_2
    /\ b[Len(b)] = (Len(b) - 3) % 256

\* gzip.decompress: [ok, data]; the empty input decompresses to the empty output
gzip_decompress(b) ==
    IF b = <<>> THEN [ok |-> TRUE, data |-> <<>>]
    ELSE IF gzip_wellformed(b) THEN [ok |-> TRUE, data |-> SubSeq(b, 3, Len(b) - 1)]
    ELSE [ok |-> FALSE, data |-> <<>>]

\* str(b, "utf-8") succeeds on ASCII; bytes >= 128 of the model are never a
\* valid sequence
utf8_ok(b) == \A i \in 1..Len(b) : b[i] < 128

\* Characters of the texts of the model
CH_A == 97
CH_B == 98
CH_SPACE == 32

RECURSIVE Digits(_)
\* decimal digits of a natural, as characters
Digits(n) == IF n < 10 THEN << 48 + n >> ELSE Digits(n \div 10) \o << 48 + (n % 10) >>

\* A JSON object of a server payload: {"result": {"text": text}} when
\* hasResult, {"code": code} when hasCode, both, or {}.
JsonDoc(hasResult, text, hasCode, code) ==
    [hasResult |-> hasResult, text |-> text, hasCode |-> hasCode, code |-> code]

EmptyDoc == JsonDoc(FALSE, <<>>, FALSE, 0)

\* json.dumps: '{' 'r' text ';' 'c' digits '}'
json_dumps(doc) ==
    << 123 >>
    \o (IF doc.hasResult THEN << 114 >> \o doc.text \o << 59 >> ELSE <<>>)
    \o (IF doc.hasCode THEN << 99 >> \o Digits(doc.code) ELSE <<>>)
    \o << 125 >>

\* Texts the recognition service may report
TEXT_A == << CH_A >>
TEXT_AB == << CH_A, CH_B >>
ServiceTexts == { TEXT_A, TEXT_AB }

\* Payload-level status codes a JSON body may carry (1000 is success)
PAYLOAD_OK == 1000
PAYLOAD_FAILED == 1001

JsonDocs ==
    { JsonDoc(r, t, c, k) : r \in BOOLEAN, t \in ServiceTexts \cup { <<>> },
                            c \in BOOLEAN, k \in { PAYLOAD_OK, PAYLOAD_FAILED } }

\* json.loads: [ok, doc]; only a serialised object parses
json_loads(b) ==
    IF \E d \in JsonDocs : json_dumps(d) = b
    THEN [ok |-> TRUE, doc |-> CHOOSE d \in JsonDocs : json_dumps(d) = b]
    ELSE [ok |-> FALSE, doc |-> EmptyDoc]

(***************************************************************************)
(* FrameCodec                                                              *)
(***************************************************************************)
\* generate_header with the two nibbles of the second byte exchanged
generate_header_swapped(message_type, message_type_specific_flags, serial_method, compression_type, reserved_data) ==
    << BitOr(Shl4(PROTOCOL_VERSION), 1),
       BitOr(Shl4(message_type_specific_flags), message_type),
       BitOr(Shl4(serial_method), compression_type),
       reserved_data >>

\* generate_header of the realtime tool: the four header bytes
generate_header(message_type, message_type_specific_flags, serial_method, compression_type, reserved_data) ==
    LET header_size == 1
    IN  << BitOr(Shl4(PROTOCOL_VERSION), header_size),
           BitOr(Shl4(message_type), message_type_specific_flags),
           BitOr(Shl4(serial_method), compression_type),
           reserved_data >>

\* generate_header of the batch tool
generate_header_bigmodel(message_type, message_type_specific_flags, serial_method, compression_type, reserved_data) ==
    << BitOr(Shl4(PROTOCOL_VERSION), HEADER_SIZE),
       BitOr(Shl4(message_type), message_type_specific_flags),
       BitOr(Shl4(serial_method), compression_type),
       reserved_data >>

\* generate_before_payload / generate_payload_with_sequence
generate_before_payload(sequence) == to_bytes_signed(sequence)

generate_payload_with_sequence(sequence) == to_bytes_signed(sequence)

\* The header fields parse_response reads from the first four bytes
parse_header(res) ==
    [protocol_version |-> Shr4(res[1]),
     header_size |-> BitAnd(res[1], 15),
     message_type |-> Shr4(res[2]),
     message_type_specific_flags |-> BitAnd(res[2], 15),
     serialization_method |-> Shr4(res[3]),
     message_compression |-> BitAnd(res[3], 15),
     reserved |-> res[4]]

\* The dict parse_response returns: "keys" are the keys present, the other
\* fields hold the values of the present keys (and a default otherwise).
\* payload_msg is [kind, doc, raw]: a parsed JSON object, a string or bytes.
NoPayload == [kind |-> "none", doc |-> EmptyDoc, raw |-> <<>>]

ResultDict(keys, last, pseq, ack, code, msg, size) ==
    [keys |-> keys, is_last_package |-> last, payload_sequence |-> pseq, seq |-> ack,
     code |-> code, payload_msg |-> msg, payload_size |-> size]

\* The structural part of parse_response (realtime tool): sequence prefix,
\* last-package flag and the per-message-type prefix.  has_msg is
\* "payload_msg is not None", raw the bytes bound to payload_msg before
\* decompression, size the local payload_size.
parse_prefix(res) ==
    LET h == parse_header(res)
        flags == h.message_type_specific_flags
        payload0 == SliceFrom(res, h.header_size * 4)
        hasSeq == BitAnd(flags, 1) # 0 /\ Len(payload0) >= 4
        pseq == IF hasSeq THEN from_bytes_signed(SliceTo(payload0, 4)) ELSE 0
        payload == IF hasSeq THEN SliceFrom(payload0, 4) ELSE payload0
        last == BitAnd(flags, 2) # 0
        keys0 == { "is_last_package" } \cup (IF hasSeq THEN { "payload_sequence" } ELSE {})
        base == [keys |-> keys0, is_last_package |-> last, payload_sequence |-> pseq,
                 seq |-> 0, code |-> 0, has_msg |-> FALSE, raw |-> <<>>, size |-> 0]
    IN  IF h.message_type = FULL_SERVER_RESPONSE
        THEN IF Len(payload) >= 4
             THEN [base EXCEPT !.has_msg = TRUE,
                               !.size = from_bytes_signed(SliceTo(payload, 4)),
                               !.raw = SliceFrom(payload, 4)]
             ELSE base
        ELSE IF h.message_type = SERVER_ACK
        THEN IF Len(payload) >= 4
             THEN LET b1 == [base EXCEPT !.keys = @ \cup { "seq" },
                                         !.seq = from_bytes_signed(SliceTo(payload, 4))]
                  IN  IF Len(payload) >= 8
                      THEN [b1 EXCEPT !.has_msg = TRUE,
                                      !.size = from_bytes_unsigned(SubSeq(payload, 5, 8)),
                                      !.raw = SliceFrom(payload, 8)]
                      ELSE b1
             ELSE base
        ELSE IF h.message_type = SERVER_ERROR_RESPONSE
        THEN IF Len(payload) >= 8
             THEN [base EXCEPT !.keys = @ \cup { "code" },
                               !.code = from_bytes_unsigned(SliceTo(payload, 4)),
                               !.has_msg = TRUE,
                               !.size = from_bytes_unsigned(SubSeq(payload, 5, 8)),
                               !.raw = SliceFrom(payload, 8)]
             ELSE base
        ELSE base

\* A batch decoder that leaves the error code out of its result
parse_prefix_bigmodel_no_code(res) ==
    LET h == parse_header(res)
        flags == h.message_type_specific_flags
        payload0 == SliceFrom(res, h.header_size * 4)
        hasSeq == BitAnd(flags, 1) # 0 /\ Len(payload0) >= 4
        pseq == IF hasSeq THEN from_bytes_signed(SliceTo(payload0, 4)) ELSE 0
        payload == IF hasSeq THEN SliceFrom(payload0, 4) ELSE payload0
        last == BitAnd(flags, 2) # 0
        keys0 == { "is_last_package" } \cup (IF hasSeq THEN { "payload_sequence" } ELSE {})
        base == [keys |-> keys0, is_last_package |-> last, payload_sequence |-> pseq,
                 seq |-> 0, code |-> 0, has_msg |-> FALSE, raw |-> <<>>, size |-> 0]
    IN  IF h.message_type = FULL_SERVER_RESPONSE
        THEN IF Len(payload) >= 4
             THEN [base EXCEPT !.has_msg = TRUE,
                               !.size = from_bytes_signed(SliceTo(payload, 4)),
                               !.raw = SliceFrom(payload, 4)]
             ELSE base
        ELSE IF h.message_type = SERVER_ERROR_RESPONSE
        THEN IF Len(payload) >= 8
             THEN [base EXCEPT !.has_msg = TRUE,
                               !.size = from_bytes_unsigned(SubSeq(payload, 5, 8)),
                               !.raw = SliceFrom(payload, 8)]
             ELSE base
        ELSE base

\* The structural part of parse_response (batch tool): no SERVER_ACK branch
parse_prefix_bigmodel(res) ==
    LET h == parse_header(res)
        flags == h.message_type_specific_flags
        payload0 == SliceFrom(res, h.header_size * 4)
        hasSeq == BitAnd(flags, 1) # 0 /\ Len(payload0) >= 4
        pseq == IF hasSeq THEN from_bytes_signed(SliceTo(payload0, 4)) ELSE 0
        payload == IF hasSeq THEN SliceFrom(payload0, 4) ELSE payload0
        last == BitAnd(flags, 2) # 0
        keys0 == { "is_last_package" } \cup (IF hasSeq THEN { "payload_sequence" } ELSE {})
        base == [keys |-> keys0, is_last_package |-> last, payload_sequence |-> pseq,
                 seq |-> 0, code |-> 0, has_msg |-> FALSE, raw |-> <<>>, size |-> 0]
    IN  IF h.message_type = FULL_SERVER_RESPONSE
        THEN IF Len(payload) >= 4
             THEN [base EXCEPT !.has_msg = TRUE,
                               !.size = from_bytes_signed(SliceTo(payload, 4)),
                               !.raw = SliceFrom(payload, 4)]
             ELSE base
        ELSE IF h.message_type = SERVER_ERROR_RESPONSE
        THEN IF Len(payload) >= 8
             THEN [base EXCEPT !.keys = @ \cup { "code" },
                               !.code = from_bytes_unsigned(SliceTo(payload, 4)),
                               !.has_msg = TRUE,
                               !.size = from_bytes_unsigned(SubSeq(payload, 5, 8)),
                               !.raw = SliceFrom(payload, 8)]
             ELSE base
        ELSE base

\* parse_response with an exception handler that returns a fresh dict
\* holding the parse error alone
decode_payload_fresh_dict(pre, serialization_method, message_compression) ==
    LET z == IF message_compression = GZIP THEN gzip_decompress(pre.raw)
             ELSE [ok |-> TRUE, data |-> pre.raw]
        j == json_loads(z.data)
        failed == ResultDict({ "parse_error" }, FALSE, 0, 0, 0, NoPayload, 0)
        done(m) == ResultDict(pre.keys \cup { "payload_msg", "payload_size" },
                              pre.is_last_package, pre.payload_sequence, pre.seq, pre.code,
                              m, pre.size)
    IN  IF ~z.ok THEN failed
        ELSE IF serialization_method = JSON
        THEN IF utf8_ok(z.data) /\ j.ok
             THEN done([kind |-> "json", doc |-> j.doc, raw |-> z.data])
             ELSE failed
        ELSE IF serialization_method # 0
        THEN IF utf8_ok(z.data)
             THEN done([kind |-> "str", doc |-> EmptyDoc, raw |-> z.data])
             ELSE failed
        ELSE done([kind |-> "bytes", doc |-> EmptyDoc, raw |-> z.data])

\* The try block of parse_response: decompress, deserialise; a failure
\* leaves "parse_error" and neither "payload_msg" nor "payload_size".
decode_payload(pre, serialization_method, message_compression) ==
    LET z == IF message_compression = GZIP THEN gzip_decompress(pre.raw)
             ELSE [ok |-> TRUE, data |-> pre.raw]
        j == json_loads(z.data)
        failed == [keys |-> pre.keys \cup { "parse_error" }, msg |-> NoPayload]
        done(m) == [keys |-> pre.keys \cup { "payload_msg", "payload_size" }, msg |-> m]
        r == IF ~z.ok THEN failed
             ELSE IF serialization_method = JSON
             THEN IF utf8_ok(z.data) /\ j.ok
                  THEN done([kind |-> "json", doc |-> j.doc, raw |-> z.data])
                  ELSE failed
             ELSE IF serialization_method # 0
             THEN IF utf8_ok(z.data)
                  THEN done([kind |-> "str", doc |-> EmptyDoc, raw |-> z.data])
                  ELSE failed
             ELSE done([kind |-> "bytes", doc |-> EmptyDoc, raw |-> z.data])
    IN  ResultDict(r.keys, pre.is_last_package, pre.payload_sequence, pre.seq, pre.code,
                   r.msg, IF "payload_size" \in r.keys THEN pre.size ELSE 0)

\* The result of parse_response once the prefix is read
finish_parse(res, pre) ==
    IF ~pre.has_msg
    THEN ResultDict(pre.keys, pre.is_last_package, pre.payload_sequence,
                    pre.seq, pre.code, NoPayload, 0)
    ELSE decode_payload(pre, parse_header(res).serialization_method,
                        parse_header(res).message_compression)

TooShort == ResultDict({ "error" }, FALSE, 0, 0, 0, NoPayload, 0)

\* parse_response of the realtime tool
parse_response(res) ==
    IF Len(res) < 4 THEN TooShort ELSE finish_parse(res, parse_prefix(res))

\* parse_response of the batch tool
parse_response_bigmodel(res) ==
    IF Len(res) < 4 THEN TooShort ELSE finish_parse(res, parse_prefix_bigmodel(res))

(***************************************************************************)
(* Frames of the far end, laid out as the wire format prescribes: header,  *)
(* sequence number when flag bit0 is set, the acked sequence (ServerAck)   *)
(* or the error code (ServerErrorResponse), payload size, payload.         *)
(***************************************************************************)
encode_payload(data, serial_method, compression_type) ==
    IF compression_type = GZIP THEN gzip_compress(data) ELSE data

ServerFrame(message_type, flags, serial_method, compression_type, sequence, prefix, body) ==
    generate_header(message_type, flags, serial_method, compression_type, 0)
    \o (IF BitAnd(flags, 1) # 0 THEN to_bytes_signed(sequence) ELSE <<>>)
    \o (IF message_type \in { SERVER_ACK, SERVER_ERROR_RESPONSE }
        THEN to_bytes_unsigned(prefix) ELSE <<>>)
    \o to_bytes_unsigned(Len(body))
    \o body

(***************************************************************************)
(* Texts: sequences of characters                                          *)
(***************************************************************************)
\* t.startswith(p)
StartsWith(t, p) == Len(p) <= Len(t) /\ SubSeq(t, 1, Len(p)) = p

\* w in t (substring test)
Contains(t, w) == \E i \in 1..(Len(t) - Len(w) + 1) : SubSeq(t, i, i + Len(w) - 1) = w

\* the words of t.split()
Words(t) ==
    { SubSeq(t, i, j) : <<i, j>> \in
        { p \in (1..Len(t)) \X (1..Len(t)) :
            /\ p[1] <= p[2]
            /\ \A k \in p[1]..p[2] : t[k] # CH_SPACE
            /\ (p[1] = 1 \/ t[p[1] - 1] = CH_SPACE)
            /\ (p[2] = Len(t) \/ t[p[2] + 1] = CH_SPACE) } }

RECURSIVE LStrip(_)
LStrip(t) == IF t # << >> /\ Head(t) = CH_SPACE THEN LStrip(Tail(t)) ELSE t

RECURSIVE RStrip(_)
RStrip(t) ==
    IF t # << >> /\ t[Len(t)] = CH_SPACE THEN RStrip(SubSeq(t, 1, Len(t) - 1)) ELSE t

\* t.strip()
Strip(t) == RStrip(LStrip(t))

RECURSIVE Join(_)
\* ' '.join(texts)
Join(texts) ==
    IF texts = << >> THEN << >>
    ELSE IF Len(texts) = 1 THEN texts[1]
    ELSE texts[1] \o << CH_SPACE >> \o Join(Tail(texts))

\* _update_recognized_text that puts a text without overlap in front of
\* the transcript
update_recognized_text_prepends(recognized, new_text) ==
    IF recognized = << >> THEN new_text
    ELSE IF StartsWith(new_text, recognized) THEN new_text
    ELSE IF ~(\E word \in Words(new_text) : Len(word) > 1 /\ Contains(recognized, word))
    THEN new_text \o << CH_SPACE >> \o recognized
    ELSE new_text

\* _update_recognized_text without the test for an extension
update_recognized_text_no_extension(recognized, new_text) ==
    IF recognized = << >> THEN new_text
    ELSE IF ~(\E word \in Words(new_text) : Len(word) > 1 /\ Contains(recognized, word))
    THEN recognized \o << CH_SPACE >> \o new_text
    ELSE new_text

\* _update_recognized_text: the new value of recognized_text
update_recognized_text(recognized, new_text) ==
    IF recognized = << >> THEN new_text
    ELSE IF StartsWith(new_text, recognized) THEN new_text
    ELSE IF ~(\E word \in Words(new_text) : Len(word) > 1 /\ Contains(recognized, word))
    THEN recognized \o << CH_SPACE >> \o new_text
    ELSE new_text

(***************************************************************************)
(* Frames the clients build                                                *)
(***************************************************************************)
\* str.encode(json.dumps(request_params)): the recognition configuration,
\* a fixed JSON text
request_json == << 123, 117, 125 >>

\* The full client request of start_recognition
full_client_request(sequence) ==
    LET payload_bytes == gzip_compress(request_json)
    IN  generate_header(FULL_CLIENT_REQUEST, POS_SEQUENCE, JSON, GZIP, 0)
        \o generate_before_payload(sequence)
        \o to_bytes_unsigned(Len(payload_bytes))
        \o payload_bytes

\* An audio request whose size field holds the length of the chunk before
\* compression
audio_request_raw_size(sequence, audio_chunk) ==
    LET payload_bytes == gzip_compress(audio_chunk)
    IN  generate_header(AUDIO_ONLY_REQUEST, POS_SEQUENCE, JSON, GZIP, 0)
        \o generate_before_payload(sequence)
        \o to_bytes_unsigned(Len(audio_chunk))
        \o payload_bytes

\* The audio request of _send_audio_data
audio_request(sequence, audio_chunk) ==
    LET payload_bytes == gzip_compress(audio_chunk)
    IN  generate_header(AUDIO_ONLY_REQUEST, POS_SEQUENCE, JSON, GZIP, 0)
        \o generate_before_payload(sequence)
        \o to_bytes_unsigned(Len(payload_bytes))
        \o payload_bytes

\* An end frame that carries the compression of no data
end_request_compressed_empty(sequence) ==
    generate_header(AUDIO_ONLY_REQUEST, NEG_WITH_SEQUENCE, JSON, GZIP, 0)
    \o generate_before_payload(sequence)
    \o to_bytes_unsigned(Len(gzip_compress(<< >>)))
    \o gzip_compress(<< >>)

\* The empty end frame of stop_recognition
end_request(sequence) ==
    generate_header(AUDIO_ONLY_REQUEST, NEG_WITH_SEQUENCE, JSON, GZIP, 0)
    \o generate_before_payload(sequence)
    \o to_bytes_unsigned(0)

\* The full client request of recognize_audio
full_client_request_bigmodel(sequence) ==
    LET payload_bytes == gzip_compress(request_json)
    IN  generate_header_bigmodel(FULL_CLIENT_REQUEST, POS_SEQUENCE, JSON, GZIP, 0)
        \o generate_payload_with_sequence(sequence)
        \o to_bytes_unsigned(Len(payload_bytes))
        \o payload_bytes

\* The audio request of recognize_audio for one chunk
audio_request_bigmodel(sequence, chunk, is_last) ==
    LET payload_bytes == gzip_compress(chunk)
    IN  generate_header_bigmodel(AUDIO_ONLY_REQUEST,
                                 IF is_last THEN NEG_WITH_SEQUENCE ELSE POS_SEQUENCE,
                                 JSON, GZIP, 0)
        \o generate_payload_with_sequence(sequence)
        \o to_bytes_unsigned(Len(payload_bytes))
        \o payload_bytes

\* Reading a client frame back: message type, flags, sequence number,
\* declared payload size and the payload bytes
FrameType(f) == Shr4(f[2])
FrameFlags(f) == BitAnd(f[2], 15)
FrameSequence(f) == from_bytes_signed(SubSeq(f, 5, 8))
FramePayloadSize(f) == from_bytes_unsigned(SubSeq(f, 9, 12))
FramePayload(f) == SliceFrom(f, 12)

(***************************************************************************)
(* Frames the far end may emit during a session                            *)
(***************************************************************************)
SERVER_CODE == 45000000

ResultFrame(doc, last) ==
    ServerFrame(FULL_SERVER_RESPONSE, IF last THEN NEG_WITH_SEQUENCE ELSE POS_SEQUENCE,
                JSON, GZIP, IF last THEN -2 ELSE 1, 0, gzip_compress(json_dumps(doc)))

HS_OK == ResultFrame(EmptyDoc, FALSE)
RES_A == ResultFrame(JsonDoc(TRUE, TEXT_A, FALSE, PAYLOAD_OK), FALSE)
RES_AB_LAST == ResultFrame(JsonDoc(TRUE, TEXT_AB, FALSE, PAYLOAD_OK), TRUE)
PAYLOAD_ERR == ResultFrame(JsonDoc(FALSE, << >>, TRUE, PAYLOAD_FAILED), FALSE)
ERR_FRAME ==
    ServerFrame(SERVER_ERROR_RESPONSE, NO_SEQUENCE, JSON, GZIP, 0, SERVER_CODE,
                gzip_compress(json_dumps(EmptyDoc)))
SHORT_FRAME == << 17, 144 >>

\* Malformed frames: too short for a header, a sequence prefix cut short
\* after two bytes, and a payload of raw bytes where a JSON object is
\* expected (no serialization, no compression)
TRUNC_FRAME == generate_header(FULL_SERVER_RESPONSE, POS_SEQUENCE, JSON, GZIP, 0) \o << 0, 0 >>
RAW_PAYLOAD == << 200, 201 >>
BYTES_FRAME ==
    ServerFrame(FULL_SERVER_RESPONSE, POS_SEQUENCE, NO_SERIALIZATION, NO_COMPRESSION, 1, 0,
                RAW_PAYLOAD)
MalformedFrames == { SHORT_FRAME, TRUNC_FRAME, BYTES_FRAME }

\* What the far end may answer to the handshake, and what it may emit later
\* (a frame too short for a header is decoded the same way wherever it
\* arrives; the model lets it arrive first)
HandshakeAnswers == { HS_OK, PAYLOAD_ERR, ERR_FRAME, SHORT_FRAME }
StreamFrames == { RES_A, RES_AB_LAST, ERR_FRAME }

IsErrorFrame(f) == Len(f) >= 4 /\ FrameType(f) = SERVER_ERROR_RESPONSE

\* parse_response of each tool on the frames the far end can emit, as tables
FarEndFrames == HandshakeAnswers \cup StreamFrames \cup MalformedFrames
received == [ res \in FarEndFrames |-> parse_response(res) ]
received_bigmodel == [ res \in FarEndFrames |-> parse_response_bigmodel(res) ]

(***************************************************************************)
(* State                                                                   *)
(***************************************************************************)
VARIABLES
    mode,               \* which program runs: "codec", "main_async", "api", "batch"
    \* codec exercise
    cPc, cArgs, cHeader, cHeaderB, cFrame, cHdr, cHdrB, cRes, cResB,
    \* reconciler exercise: the calls of _update_recognized_text made so far,
    \* each as [before, text, after]
    reconciled,
    \* transport of the current attempt
    wsState,            \* "none", "open", "closed"
    inbox,              \* frames emitted by the far end and not yet read
    srvLog,             \* every frame the far end emitted, in order
    nRead,              \* how many of them the client has read
    sent,               \* frames written by the client: [frame, nread]
    connects,           \* connections opened by the current attempt
    lateSend,           \* a send was called after the attempt had returned
    \* RealtimeVoiceRecognitionClient
    recognized_text, ws, seq, recognition_active,
    startPc, sendPc, recvPc, stopPc,
    printed,            \* what the realtime tool reported to its user
    finalShown,         \* the final result stop_recognition displayed, if any
    \* RealtimeAudioRecorder
    recording, audio_queue, produced,
    left_over,          \* what audio_queue held when the current session started
    \* main_async
    mainPc, stdin, typed, eWhileStreaming,
    \* BigModelASRClient.recognize_audio
    bPc, bSeq, audio_data, bIndex, recognition_results, bResult,
    \* the interview assistant's web application
    records,            \* the voice_records table: row id -> [user_id, config_id, status, written, live]
    current_record_id,  \* InterviewAssistant.current_record_id, 0 for None
    current_session_id, \* InterviewAssistant.current_session_id, 0 for None
    reqs,               \* the socket requests, each handled by a thread of its own
    configs,            \* the interview_configs table: row id -> [user_id, live]
    transcripts,        \* the interview_transcripts table: row id -> [user_id, config_id, live, status]
    accessLog           \* what the endpoints answered: [by, op, kind, id, owner]

codecVars == << cPc, cArgs, cHeader, cHeaderB, cFrame, cHdr, cHdrB, cRes, cResB >>
pureVars == << codecVars, reconciled >>
wireVars == << wsState, inbox, srvLog, nRead, sent, connects, lateSend >>
clientVars == << recognized_text, ws, seq, recognition_active,
                 startPc, sendPc, recvPc, stopPc, printed, finalShown >>
recorderVars == << recording, audio_queue, produced, left_over >>
mainVars == << mainPc, stdin, typed, eWhileStreaming >>
batchVars == << bPc, bSeq, audio_data, bIndex, recognition_results, bResult >>
webVars == << records, current_record_id, current_session_id, reqs,
              configs, transcripts, accessLog >>
vars == << mode, pureVars, webVars, wireVars, clientVars, recorderVars, mainVars, batchVars >>

NoHeaderFields == parse_header(<< 0, 0, 0, 0 >>)

CodecIdle ==
    /\ cPc = "off"
    /\ cArgs = << >>
    /\ cHeader = << >>
    /\ cHeaderB = << >>
    /\ cFrame = << >>
    /\ cHdr = NoHeaderFields
    /\ cHdrB = NoHeaderFields
    /\ cRes = TooShort
    /\ cResB = TooShort

WireIdle ==
    /\ wsState = "none"
    /\ inbox = << >>
    /\ srvLog = << >>
    /\ nRead = 0
    /\ sent = << >>
    /\ connects = 0
    /\ lateSend = FALSE

\* RealtimeVoiceRecognitionClient.__init__
ClientInit ==
    /\ recognized_text = << >>
    /\ ws = FALSE
    /\ seq = 1
    /\ recognition_active = FALSE
    /\ startPc = "idle"
    /\ sendPc = "none"
    /\ recvPc = "none"
    /\ stopPc = "idle"
    /\ printed = {}
    /\ finalShown = << >>

\* RealtimeAudioRecorder.__init__
RecorderInit ==
    /\ recording = FALSE
    /\ audio_queue = << >>
    /\ produced = 0
    /\ left_over = << >>

MainIdle ==
    /\ mainPc = "keys"
    /\ stdin = << >>
    /\ typed = 0
    /\ eWhileStreaming = FALSE

NoResult == [kind |-> "none", error |-> "", text |-> << >>, chunks_processed |-> 0]

BatchIdle ==
    /\ bPc = "off"
    /\ bSeq = 0
    /\ audio_data = << >>
    /\ bIndex = 0
    /\ recognition_results = << >>
    /\ bResult = NoResult

(***************************************************************************)
(* The interview assistant: one InterviewAssistant shared by every socket  *)
(* session, each socket request handled by a thread of its own             *)
(***************************************************************************)
MaxRequests == 2
MaxStreamChunks == 1
MaxWebOps == 2

Requests == 1..MaxRequests
\* the registered users; a socket session belongs to one of them or to a
\* visitor who has not logged in
Users == { 1, 2 }
Sessions == { 1, 2, 3 }
session_user(s) == IF s \in Users THEN s ELSE 0

TerminalStatuses == { "completed", "interrupted", "failed" }
TerminalEvents == { "response_complete", "error", "audio_processing_failed" }
\* the state the remote service reports for an uploaded file once the wait
\* is over, "FAILED_VIDEO" being FAILED with an error that mentions video
FileStates == { "ACTIVE", "FAILED_VIDEO", "FAILED", "PROCESSING" }

IdleRequest == [pc |-> "idle", kind |-> "none", session |-> 0, user_id |-> 0, accepted |-> FALSE, voice_record |-> 0, temp |-> "none", remote |-> "none", chunks |-> 0, emitted |-> << >>]

\* InterviewAssistant.__init__ and empty tables
WebIdle ==
    /\ records = << >>
    /\ current_record_id = 0
    /\ current_session_id = 0
    /\ reqs = [ r \in Requests |-> IdleRequest ]
    /\ configs = << >>
    /\ transcripts = << >>
    /\ accessLog = << >>

\* socketio.emit(name, ..., to=to) made by the thread of request r
Emitted(emitted, name, to) == Append(emitted, [name |-> name, to |-> to])

\* row.status = status; db.session.commit() made by the thread of request r
SetStatus(table, id, status, r) == [table EXCEPT ![id] = [@ EXCEPT !.status = status, !.written = Append(@, [status |-> status, by |-> r])]]

AssistantOnly == UNCHANGED << mode, pureVars, configs, transcripts, accessLog, wireVars, clientVars, recorderVars, mainVars, batchVars >>

\* handle_process_audio / handle_process_text_question up to the call of the
\* assistant: the input is validated, 'processing_start' is emitted
HandleRequest(r, kind) ==
    /\ mode = "web"
    /\ reqs[r].pc = "idle"
    /\ \A q \in Requests : q < r => reqs[q].pc # "idle"
    /\ \E s \in Sessions, valid \in BOOLEAN :
          reqs' = [reqs EXCEPT ![r] =
                     [@ EXCEPT !.kind = kind, !.session = s, !.user_id = session_user(s),
                               !.accepted = valid,
                               !.pc = IF valid THEN "interrupt" ELSE "done",
                               !.emitted = Emitted(@, IF valid THEN "processing_start" ELSE "error", s)]]
    /\ UNCHANGED << records, current_record_id, current_session_id >>
    /\ AssistantOnly

handle_process_audio == mode = "web" /\ \E r \in Requests : HandleRequest(r, "audio")

handle_process_text_question == mode = "web" /\ \E r \in Requests : HandleRequest(r, "text")

\* the record the assistant remembers is marked interrupted if it is still
\* generating, and its session is told
ReqInterrupt(r) ==
    /\ mode = "web"
    /\ reqs[r].pc = "interrupt"
    /\ IF current_record_id # 0 /\ reqs[r].user_id # 0
             /\ records[current_record_id].status = "generating"
       THEN /\ records' = SetStatus(records, current_record_id, "interrupted", r)
            /\ reqs' = [reqs EXCEPT ![r] =
                          [@ EXCEPT !.pc = "create",
                                    !.emitted = Emitted(@, "voice_record_interrupted", current_session_id)]]
       ELSE /\ reqs' = [reqs EXCEPT ![r].pc = "create"]
            /\ UNCHANGED records
    /\ UNCHANGED << current_record_id, current_session_id >>
    /\ AssistantOnly

\* a generating record is created for a logged-in user and remembered
ReqCreate(r) ==
    /\ mode = "web"
    /\ reqs[r].pc = "create"
    /\ LET next_pc == IF reqs[r].kind = "audio" THEN "tempfile" ELSE "generate" IN
       IF reqs[r].user_id # 0
       THEN /\ records' = Append(records, [user_id |-> reqs[r].user_id, config_id |-> 0, status |-> "generating", written |-> << >>, live |-> TRUE])
            /\ current_record_id' = Len(records) + 1
            /\ current_session_id' = reqs[r].session
            /\ reqs' = [reqs EXCEPT ![r] = [@ EXCEPT !.pc = next_pc, !.voice_record = Len(records) + 1]]
       ELSE /\ reqs' = [reqs EXCEPT ![r].pc = next_pc]
            /\ UNCHANGED << records, current_record_id, current_session_id >>
    /\ AssistantOnly

\* the temporary file is created and the decoded audio written to it; the
\* decoding or the checks of the written file may raise
ReqTempFile(r) ==
    /\ mode = "web"
    /\ reqs[r].pc = "tempfile"
    /\ \E ok \in BOOLEAN :
          reqs' = [reqs EXCEPT ![r] = [@ EXCEPT !.temp = "exists", !.pc = IF ok THEN "upload" ELSE "except"]]
    /\ UNCHANGED << records, current_record_id, current_session_id >>
    /\ AssistantOnly

\* genai.upload_file by the three strategies: one succeeds or all fail
ReqUpload(r) ==
    /\ mode = "web"
    /\ reqs[r].pc = "upload"
    /\ \E ok \in BOOLEAN :
          reqs' = [reqs EXCEPT ![r] = [@ EXCEPT !.remote = IF ok THEN "uploaded" ELSE @,
                                                !.pc = IF ok THEN "wait" ELSE "except"]]
    /\ UNCHANGED << records, current_record_id, current_session_id >>
    /\ AssistantOnly

\* the wait for the remote service and the checks of the file's final state
ReqFileState(r) ==
    /\ mode = "web"
    /\ reqs[r].pc = "wait"
    /\ \E state \in FileStates :
          IF state = "FAILED_VIDEO"
          THEN /\ reqs' = [reqs EXCEPT ![r] =
                             [@ EXCEPT !.pc = "finally", !.remote = "deleted",
                                       !.emitted = Emitted(@, "audio_processing_failed", reqs[r].session)]]
               /\ records' = IF reqs[r].voice_record # 0
                             THEN SetStatus(records, reqs[r].voice_record, "failed", r)
                             ELSE records
          ELSE /\ reqs' = [reqs EXCEPT ![r].pc = IF state = "ACTIVE" THEN "generate" ELSE "except"]
               /\ UNCHANGED records
    /\ UNCHANGED << current_record_id, current_session_id >>
    /\ AssistantOnly

\* generate_content on the models in turn: one answers or all fail
ReqGenerate(r) ==
    /\ mode = "web"
    /\ reqs[r].pc = "generate"
    /\ \E ok \in BOOLEAN :
          reqs' = [reqs EXCEPT ![r].pc = IF ok THEN "stream" ELSE "except"]
    /\ UNCHANGED << records, current_record_id, current_session_id >>
    /\ AssistantOnly

\* one chunk of the streamed answer is passed on to the session
ReqStreamChunk(r) ==
    /\ mode = "web"
    /\ reqs[r].pc = "stream"
    /\ reqs[r].chunks < MaxStreamChunks
    /\ reqs' = [reqs EXCEPT ![r] = [@ EXCEPT !.chunks = @ + 1,
                                             !.emitted = Emitted(@, "response_chunk", reqs[r].session)]]
    /\ UNCHANGED << records, current_record_id, current_session_id >>
    /\ AssistantOnly

\* the stream ends, normally or with an error; an error is raised further
\* only when nothing of the answer has arrived
ReqStreamEnd(r) ==
    /\ mode = "web"
    /\ reqs[r].pc = "stream"
    /\ \E stream_error \in BOOLEAN :
          reqs' = [reqs EXCEPT ![r].pc =
                     IF stream_error /\ reqs[r].chunks = 0 THEN "except"
                     ELSE IF reqs[r].kind = "audio" THEN "delete_file" ELSE "complete"]
    /\ UNCHANGED << records, current_record_id, current_session_id >>
    /\ AssistantOnly

\* genai.delete_file after the answer
ReqDeleteFile(r) ==
    /\ mode = "web"
    /\ reqs[r].pc = "delete_file"
    /\ reqs' = [reqs EXCEPT ![r] = [@ EXCEPT !.remote = "deleted", !.pc = "complete"]]
    /\ UNCHANGED << records, current_record_id, current_session_id >>
    /\ AssistantOnly

\* the record is completed, 'response_complete' emitted, and the remembered
\* record forgotten if it is this request's
ReqComplete(r) ==
    /\ mode = "web"
    /\ reqs[r].pc = "complete"
    /\ records' = IF reqs[r].voice_record # 0
                  THEN SetStatus(records, reqs[r].voice_record, "completed", r)
                  ELSE records
    /\ reqs' = [reqs EXCEPT ![r] =
                  [@ EXCEPT !.pc = IF reqs[r].kind = "audio" THEN "finally" ELSE "done",
                            !.emitted = Emitted(@, "response_complete", reqs[r].session)]]
    /\ IF current_record_id = reqs[r].voice_record
       THEN current_record_id' = 0 /\ current_session_id' = 0
       ELSE UNCHANGED << current_record_id, current_session_id >>
    /\ AssistantOnly

ReqExcept_silent(r) ==
    /\ mode = "web"
    /\ reqs[r].pc = "except"
    /\ records' = IF reqs[r].voice_record # 0
                  THEN SetStatus(records, reqs[r].voice_record, "failed", r)
                  ELSE records
    /\ reqs' = [reqs EXCEPT ![r].pc = IF reqs[r].kind = "audio" THEN "finally" ELSE "done"]
    /\ current_record_id' = 0
    /\ current_session_id' = 0
    /\ AssistantOnly

\* except Exception: the record is failed, 'error' emitted, and the
\* remembered record forgotten
ReqExcept(r) ==
    /\ mode = "web"
    /\ reqs[r].pc = "except"
    /\ records' = IF reqs[r].voice_record # 0
                  THEN SetStatus(records, reqs[r].voice_record, "failed", r)
                  ELSE records
    /\ reqs' = [reqs EXCEPT ![r] =
                  [@ EXCEPT !.pc = IF reqs[r].kind = "audio" THEN "finally" ELSE "done",
                            !.emitted = Emitted(@, "error", reqs[r].session)]]
    /\ current_record_id' = 0
    /\ current_session_id' = 0
    /\ AssistantOnly

ReqFinally_keeps_file(r) ==
    /\ mode = "web"
    /\ reqs[r].pc = "finally"
    /\ reqs' = [reqs EXCEPT ![r].pc = "done"]
    /\ UNCHANGED << records, current_record_id, current_session_id >>
    /\ AssistantOnly

\* finally: the temporary file is unlinked if it exists
ReqFinally(r) ==
    /\ mode = "web"
    /\ reqs[r].pc = "finally"
    /\ reqs' = [reqs EXCEPT ![r] = [@ EXCEPT !.pc = "done",
                                             !.temp = IF @ = "exists" THEN "deleted" ELSE @]]
    /\ UNCHANGED << records, current_record_id, current_session_id >>
    /\ AssistantOnly

InitAssistant ==
    /\ mode = "web"
    /\ CodecIdle /\ WireIdle /\ ClientInit /\ RecorderInit /\ MainIdle /\ BatchIdle /\ WebIdle
    /\ reconciled = << >>

RequestStep == \E r \in Requests : ReqInterrupt(r) \/ ReqCreate(r) \/ ReqTempFile(r) \/ ReqUpload(r) \/ ReqFileState(r) \/ ReqGenerate(r) \/ ReqStreamChunk(r) \/ ReqStreamEnd(r) \/ ReqDeleteFile(r) \/ ReqComplete(r) \/ ReqExcept(r) \/ ReqFinally(r)

\* every request has a thread of its own, so requests overlap freely
NextAssistant == handle_process_audio \/ handle_process_text_question \/ RequestStep

SpecAssistant == InitAssistant /\ [][NextAssistant]_vars

\* the clients send a request only when the one before has been answered
NoneInFlight == \A q \in Requests : reqs[q].pc \in { "idle", "done" }

handle_process_audio_in_turn == NoneInFlight /\ handle_process_audio

handle_process_text_question_in_turn == NoneInFlight /\ handle_process_text_question

NextInTurn == handle_process_audio_in_turn \/ handle_process_text_question_in_turn \/ RequestStep

SpecInTurn == InitAssistant /\ [][NextInTurn]_vars

(***************************************************************************)
(* The web application's tables behind its HTTP endpoints and the          *)
(* transcript generation                                                   *)
(***************************************************************************)
RowIds == { 1, 2 }

AccessOnly == UNCHANGED << mode, pureVars, current_record_id, current_session_id, reqs, wireVars, clientVars, recorderVars, mainVars, batchVars >>

\* Model.query.filter_by(id=id, user_id=current_user.id).first() is a row
OwnRow(table, id, u) == id \in DOMAIN table /\ table[id].live /\ table[id].user_id = u

\* Model.query.get(id) is a row
AnyRow(table, id) == id \in DOMAIN table /\ table[id].live

OwnerOf(table, id) == IF id \in DOMAIN table THEN table[id].user_id ELSE 0

\* what an endpoint answered: the row's fields or their change (op), or the
\* 404 answer
Answered(u, op, kind, table, id) == [by |-> u, op |-> IF OwnRow(table, id, u) THEN op ELSE "not_found", kind |-> kind, id |-> id, owner |-> OwnerOf(table, id)]

get_config ==
    /\ mode = "http"
    /\ Len(accessLog) < MaxWebOps
    /\ \E u \in Users, config_id \in RowIds :
          accessLog' = Append(accessLog, Answered(u, "read", "config", configs, config_id))
    /\ UNCHANGED << records, configs, transcripts >>
    /\ AccessOnly

update_config ==
    /\ mode = "http"
    /\ Len(accessLog) < MaxWebOps
    /\ \E u \in Users, config_id \in RowIds :
          accessLog' = Append(accessLog, Answered(u, "modify", "config", configs, config_id))
    /\ UNCHANGED << records, configs, transcripts >>
    /\ AccessOnly

delete_config ==
    /\ mode = "http"
    /\ Len(accessLog) < MaxWebOps
    /\ \E u \in Users, config_id \in RowIds :
          /\ accessLog' = Append(accessLog, Answered(u, "delete", "config", configs, config_id))
          /\ configs' = IF OwnRow(configs, config_id, u)
                        THEN [configs EXCEPT ![config_id].live = FALSE]
                        ELSE configs
    /\ UNCHANGED << records, transcripts >>
    /\ AccessOnly

\* the record's fields and the name of the config it refers to
get_voice_record ==
    /\ mode = "http"
    /\ Len(accessLog) < MaxWebOps
    /\ \E u \in Users, record_id \in RowIds :
          LET answer == Answered(u, "read", "record", records, record_id)
              config_id == IF record_id \in DOMAIN records THEN records[record_id].config_id ELSE 0
          IN accessLog' = IF answer.op = "read" /\ AnyRow(configs, config_id)
                          THEN accessLog \o << answer, [by |-> u, op |-> "read", kind |-> "config", id |-> config_id, owner |-> OwnerOf(configs, config_id)] >>
                          ELSE Append(accessLog, answer)
    /\ UNCHANGED << records, configs, transcripts >>
    /\ AccessOnly

mark_voice_record_read ==
    /\ mode = "http"
    /\ Len(accessLog) < MaxWebOps
    /\ \E u \in Users, record_id \in RowIds :
          accessLog' = Append(accessLog, Answered(u, "modify", "record", records, record_id))
    /\ UNCHANGED << records, configs, transcripts >>
    /\ AccessOnly

get_transcript ==
    /\ mode = "http"
    /\ Len(accessLog) < MaxWebOps
    /\ \E u \in Users, transcript_id \in RowIds :
          accessLog' = Append(accessLog, Answered(u, "read", "transcript", transcripts, transcript_id))
    /\ UNCHANGED << records, configs, transcripts >>
    /\ AccessOnly

delete_transcript ==
    /\ mode = "http"
    /\ Len(accessLog) < MaxWebOps
    /\ \E u \in Users, transcript_id \in RowIds :
          /\ accessLog' = Append(accessLog, Answered(u, "delete", "transcript", transcripts, transcript_id))
          /\ transcripts' = IF OwnRow(transcripts, transcript_id, u)
                            THEN [transcripts EXCEPT ![transcript_id].live = FALSE]
                            ELSE transcripts
    /\ UNCHANGED << records, configs >>
    /\ AccessOnly

\* handle_generate_transcript for a logged-in user: the config named by the
\* client is looked up, its company and job title go into the title of the
\* new transcript, which is sent back when the generation completes
generate_interview_transcript ==
    /\ mode = "http"
    /\ Len(accessLog) < MaxWebOps
    /\ \E u \in Users, config_id \in RowIds, completed \in BOOLEAN :
          /\ accessLog' = IF AnyRow(configs, config_id)
                          THEN Append(accessLog, [by |-> u, op |-> "read", kind |-> "config", id |-> config_id, owner |-> OwnerOf(configs, config_id)])
                          ELSE Append(accessLog, [by |-> u, op |-> "not_found", kind |-> "config", id |-> config_id, owner |-> OwnerOf(configs, config_id)])
          /\ transcripts' = Append(transcripts, [user_id |-> u, config_id |-> config_id, live |-> TRUE, status |-> IF completed THEN "completed" ELSE "failed"])
    /\ UNCHANGED << records, configs >>
    /\ AccessOnly

\* each user has a config and a voice record; a voice record carries the
\* config id its request named, or none
InitAccess ==
    /\ mode = "http"
    /\ CodecIdle /\ WireIdle /\ ClientInit /\ RecorderInit /\ MainIdle /\ BatchIdle
    /\ reconciled = << >>
    /\ current_record_id = 0
    /\ current_session_id = 0
    /\ reqs = [ r \in Requests |-> IdleRequest ]
    /\ configs = << [user_id |-> 1, live |-> TRUE], [user_id |-> 2, live |-> TRUE] >>
    /\ \E c1 \in { 0 } \cup RowIds, c2 \in { 0 } \cup RowIds :
          records = << [user_id |-> 1, config_id |-> c1, status |-> "completed", written |-> << >>, live |-> TRUE],
                       [user_id |-> 2, config_id |-> c2, status |-> "completed", written |-> << >>, live |-> TRUE] >>
    /\ transcripts = << >>
    /\ accessLog = << >>

NextAccess == get_config \/ update_config \/ delete_config \/ get_voice_record \/ mark_voice_record_read \/ get_transcript \/ delete_transcript \/ generate_interview_transcript

SpecAccess == InitAccess /\ [][NextAccess]_vars

(***************************************************************************)
(* The codec applied to enumerated frames                                  *)
(***************************************************************************)
MessageTypes == { FULL_CLIENT_REQUEST, AUDIO_ONLY_REQUEST, FULL_SERVER_RESPONSE,
                  SERVER_ACK, SERVER_ERROR_RESPONSE }
FlagValues == { NO_SEQUENCE, POS_SEQUENCE, NEG_SEQUENCE, NEG_WITH_SEQUENCE }
SerializationMethods == { NO_SERIALIZATION, JSON }
CompressionMethods == { NO_COMPRESSION, GZIP }
ReservedValues == { 0, 170 }

\* Payload data before compression: a result object, an empty object,
\* nothing, or bytes that are no JSON text
PayloadData == { json_dumps(JsonDoc(TRUE, TEXT_A, FALSE, PAYLOAD_OK)),
                 json_dumps(EmptyDoc), << >>, << 200 >> }

CodecArgs ==
    [message_type : MessageTypes, flags : FlagValues,
     serial_method : SerializationMethods, compression_type : CompressionMethods,
     reserved : ReservedValues, data : PayloadData, damaged : BOOLEAN]

InitCodec ==
    /\ mode = "codec"
    /\ cPc = "args"
    /\ cArgs \in CodecArgs
    /\ cHeader = << >>
    /\ cHeaderB = << >>
    /\ cFrame = << >>
    /\ cHdr = NoHeaderFields
    /\ cHdrB = NoHeaderFields
    /\ cRes = TooShort
    /\ cResB = TooShort
    /\ reconciled = << >>
    /\ WireIdle /\ ClientInit /\ RecorderInit /\ MainIdle /\ BatchIdle /\ WebIdle

CodecOnly == UNCHANGED << mode, reconciled, webVars, wireVars, clientVars, recorderVars, mainVars, batchVars >>

\* generate_header of both tools on the chosen fields
CodecGenerateHeader ==
    /\ cPc = "args"
    /\ cHeader' = generate_header(cArgs.message_type, cArgs.flags, cArgs.serial_method,
                                  cArgs.compression_type, cArgs.reserved)
    /\ cHeaderB' = generate_header_bigmodel(cArgs.message_type, cArgs.flags,
                                            cArgs.serial_method, cArgs.compression_type,
                                            cArgs.reserved)
    /\ cPc' = "header"
    /\ UNCHANGED << cArgs, cFrame, cHdr, cHdrB, cRes, cResB >>
    /\ CodecOnly

\* The body a far end appends to the header; a damaged payload has its
\* last byte dropped after the size field was written for the full payload
CodecBody ==
    LET body == encode_payload(cArgs.data, cArgs.serial_method, cArgs.compression_type)
        whole == ServerFrame(cArgs.message_type, cArgs.flags, cArgs.serial_method,
                             cArgs.compression_type, -2, SERVER_CODE, body)
    IN  SliceFrom(whole, 4)

CodecBuildFrame ==
    /\ cPc = "header"
    /\ \E cut \in 0..(4 + Len(CodecBody)) :
          /\ cArgs.damaged => cut < 4 + Len(CodecBody)
          /\ ~cArgs.damaged => cut = 4 + Len(CodecBody)
          /\ cFrame' = SliceTo(cHeader \o CodecBody, cut)
    /\ cPc' = "frame"
    /\ UNCHANGED << cArgs, cHeader, cHeaderB, cHdr, cHdrB, cRes, cResB >>
    /\ CodecOnly

\* parse_response of both tools on the frame
CodecParse ==
    /\ cPc = "frame"
    /\ cHdr' = IF Len(cFrame) < 4 THEN NoHeaderFields ELSE parse_header(cFrame)
    /\ cHdrB' = parse_header(cHeaderB)
    /\ cRes' = parse_response(cFrame)
    /\ cResB' = parse_response_bigmodel(cFrame)
    /\ cPc' = "parsed"
    /\ UNCHANGED << cArgs, cHeader, cHeaderB, cFrame >>
    /\ CodecOnly

NextCodec ==
    \/ CodecGenerateHeader
    \/ CodecBuildFrame
    \/ CodecParse

SpecCodec == InitCodec /\ [][NextCodec]_vars

(***************************************************************************)
(* Claims about the codec (checked under SpecCodec)                        *)
(***************************************************************************)
HeaderFieldsOf(a) ==
    [protocol_version |-> PROTOCOL_VERSION,
     header_size |-> 1,
     message_type |-> a.message_type,
     message_type_specific_flags |-> a.flags,
     serialization_method |-> a.serial_method,
     message_compression |-> a.compression_type,
     reserved |-> a.reserved]

\* C9: for every valid combination of message type, flags, serialization and
\* compression method, the header fields parse_response reads from the four
\* bytes generate_header produced (either tool) are exactly the encoded
\* version, header length 1, message type, flags, methods and reserved byte.
C9_HeaderRoundTrip ==
    cPc = "parsed" =>
        /\ cHdrB = HeaderFieldsOf(cArgs)
        /\ Len(cFrame) >= 4 => cHdr = HeaderFieldsOf(cArgs)

C9_Witness ==
    /\ cPc = "parsed"
    /\ Len(cFrame) >= 4
    /\ cArgs.message_type = SERVER_ERROR_RESPONSE
    /\ cArgs.flags = NEG_WITH_SEQUENCE
    /\ cArgs.reserved # 0
    /\ cHdr.message_type = SERVER_ERROR_RESPONSE
    /\ cHdr.message_type_specific_flags = NEG_WITH_SEQUENCE

\* A frame of the far end that is complete and whose payload decodes under
\* the methods its header names
ServerTypes == { FULL_SERVER_RESPONSE, SERVER_ACK, SERVER_ERROR_RESPONSE }

PayloadDecodes(a) ==
    a.serial_method = JSON => \E d \in JsonDocs : json_dumps(d) = a.data

WellFormedServerFrame ==
    /\ cArgs.message_type \in ServerTypes
    /\ ~cArgs.damaged
    /\ PayloadDecodes(cArgs)

DeclaredLength ==
    Len(encode_payload(cArgs.data, cArgs.serial_method, cArgs.compression_type))

ReportsPayload(result, prefix) ==
    /\ "payload_size" \in result.keys
    /\ result.payload_size = DeclaredLength
    /\ prefix.has_msg
    /\ Len(prefix.raw) = DeclaredLength

\* C10: for a well-formed server frame whose size field declares L payload
\* bytes followed by exactly L bytes, parse_response (either tool) reports
\* payload_size = L and decodes payload bytes of exactly that length.
C10_PayloadSize ==
    (cPc = "parsed" /\ WellFormedServerFrame) =>
        /\ ReportsPayload(cRes, parse_prefix(cFrame))
        /\ ReportsPayload(cResB, parse_prefix_bigmodel(cFrame))

\* The same for the decoder of the realtime tool alone, and for the decoder
\* of the batch tool on the two message types it knows
C10_PayloadSizeRealtime ==
    (cPc = "parsed" /\ WellFormedServerFrame) => ReportsPayload(cRes, parse_prefix(cFrame))

C10_PayloadSizeBatchKnownTypes ==
    (cPc = "parsed" /\ WellFormedServerFrame /\ cArgs.message_type # SERVER_ACK) =>
        ReportsPayload(cResB, parse_prefix_bigmodel(cFrame))

(***************************************************************************)
(* The reconciler applied to enumerated texts: a client that is handed a   *)
(* series of result texts, as the receiver hands them over (stripped and   *)
(* not empty)                                                              *)
(***************************************************************************)
MaxTextLen == 2         \* characters of one result text
MaxReconciles == 3      \* result texts handed to _update_recognized_text

TextChars == { CH_A, CH_B, CH_SPACE }

\* text = msg['result'].get('text', '').strip(); if text: ...
ReconcileTexts ==
    { t \in UNION { [1..n -> TextChars] : n \in 1..MaxTextLen } : Strip(t) = t }

InitReconcile ==
    /\ mode = "reconcile"
    /\ CodecIdle
    /\ reconciled = << >>
    /\ WireIdle /\ ClientInit /\ RecorderInit /\ MainIdle /\ BatchIdle /\ WebIdle

\* One call of _update_recognized_text
UpdateRecognizedText ==
    /\ mode = "reconcile"
    /\ Len(reconciled) < MaxReconciles
    /\ \E new_text \in ReconcileTexts :
          /\ recognized_text' = update_recognized_text(recognized_text, new_text)
          /\ reconciled' = Append(reconciled, [before |-> recognized_text, text |-> new_text,
                                               after |-> recognized_text'])
    /\ UNCHANGED << mode, codecVars, webVars, wireVars, ws, seq, recognition_active,
                    startPc, sendPc, recvPc, stopPc, printed, finalShown,
                    recorderVars, mainVars, batchVars >>

NextReconcile == UpdateRecognizedText

SpecReconcile == InitReconcile /\ [][NextReconcile]_vars

(***************************************************************************)
(* Claims about the reconciler (checked under SpecReconcile)               *)
(***************************************************************************)
\* T is an extension of the transcript
IsExtension(c) == c.before # << >> /\ StartsWith(c.text, c.before)

\* C11: for a non-empty transcript and a new non-empty text T that starts
\* with the transcript, _update_recognized_text sets the transcript to
\* exactly T.
C11_Extension ==
    \A i \in 1..Len(reconciled) :
        IsExtension(reconciled[i]) => reconciled[i].after = reconciled[i].text

\* "a" then "ab" was reconciled to "ab"
C11_Witness ==
    /\ Len(reconciled) >= 2
    /\ reconciled[2].before = TEXT_A
    /\ reconciled[2].text = TEXT_AB
    /\ recognized_text = TEXT_AB

\* T and the transcript have a whitespace-separated token in common
SharesToken(c) == Words(c.text) \cap Words(c.before) # {}

Appended(c) == c.after = c.before \o << CH_SPACE >> \o c.text

\* C12: for a non-empty transcript and a new non-empty text T that is not
\* an extension of it, the transcript becomes transcript + " " + T if and
\* only if T shares no token with the transcript.
C12_AppendIffDisjoint ==
    \A i \in 1..Len(reconciled) :
        (reconciled[i].before # << >> /\ ~IsExtension(reconciled[i])) =>
            (Appended(reconciled[i]) <=> ~SharesToken(reconciled[i]))

\* What the code tests instead: no word of T longer than one character
\* occurs anywhere in the transcript
C12_AppendIffNoLongWordInside ==
    \A i \in 1..Len(reconciled) :
        (reconciled[i].before # << >> /\ ~IsExtension(reconciled[i])) =>
            (Appended(reconciled[i]) <=>
                ~(\E w \in Words(reconciled[i].text) :
                      Len(w) > 1 /\ Contains(reconciled[i].before, w)))

\* C13: from any transcript, reconciling the same non-empty text T twice in
\* a row leaves the transcript that reconciling it once leaves; T is never
\* duplicated.
C13_Idempotent ==
    \A i \in 1..(Len(reconciled) - 1) :
        reconciled[i + 1].text = reconciled[i].text =>
            reconciled[i + 1].after = reconciled[i].after

\* Idempotence holds from the empty transcript and after an extension or a
\* replacement, that is whenever the first call left exactly T
C13_IdempotentAfterReplace ==
    \A i \in 1..(Len(reconciled) - 1) :
        (reconciled[i + 1].text = reconciled[i].text /\ reconciled[i].after = reconciled[i].text)
            => reconciled[i + 1].after = reconciled[i].after

\* C29: for a non-empty transcript and a new non-empty text T that is not
\* an extension of it and shares at least one token with it, the transcript
\* becomes exactly T; T is not appended.
C29_SharedTokenReplaces ==
    \A i \in 1..Len(reconciled) :
        (/\ reconciled[i].before # << >>
         /\ ~IsExtension(reconciled[i])
         /\ SharesToken(reconciled[i])) => reconciled[i].after = reconciled[i].text

\* The replacement the code makes: when a word of T longer than one
\* character occurs in the transcript
C29_LongWordInsideReplaces ==
    \A i \in 1..Len(reconciled) :
        (/\ reconciled[i].before # << >>
         /\ ~IsExtension(reconciled[i])
         /\ \E w \in Words(reconciled[i].text) :
               Len(w) > 1 /\ Contains(reconciled[i].before, w))
            => reconciled[i].after = reconciled[i].text

\* t ends with p
EndsWith(t, p) == Len(p) <= Len(t) /\ SubSeq(t, Len(t) - Len(p) + 1, Len(t)) = p

\* C32: after any series of _update_recognized_text calls with non-empty
\* texts the transcript is not empty and ends with the text reconciled last.
C32_LatestTextIsSuffix ==
    /\ \A i \in 1..Len(reconciled) :
          /\ reconciled[i].after # << >>
          /\ EndsWith(reconciled[i].after, reconciled[i].text)
    /\ (mode = "reconcile" /\ reconciled # << >>) =>
          /\ recognized_text # << >>
          /\ EndsWith(recognized_text, reconciled[Len(reconciled)].text)

\* "ab" then "b" was reconciled to "ab b": the text was appended and is a
\* proper suffix
C32_Witness ==
    /\ Len(reconciled) = 2
    /\ reconciled[2].before = TEXT_AB
    /\ reconciled[2].text = << CH_B >>
    /\ recognized_text = << CH_A, CH_B, CH_SPACE, CH_B >>

(***************************************************************************)
(* Bounds of the sessions                                                  *)
(***************************************************************************)
MaxServerFrames == 3    \* frames the far end emits per connection
MaxChunks == 1          \* audio buffers the microphone delivers
MaxKeys == 2            \* keys the user types
MaxAudioLen == 4        \* blocks of recorded audio handed to recognize_audio
BlockBytes == 1600      \* bytes of audio one element of audio_data stands for
MaxSessionKeys == 3     \* keys the user types when sessions follow one another

(***************************************************************************)
(* The far end and the transport                                           *)
(***************************************************************************)
SessionMode == mode \in { "main_async", "api", "batch" }

\* One entry of the log of frames written by the client
SentEntry(frame) == [frame |-> frame, nread |-> nRead, slen |-> Len(srvLog)]

\* The far end emits a frame on the open connection
ServerSend ==
    /\ SessionMode
    /\ wsState = "open"
    /\ Len(srvLog) < MaxServerFrames
    /\ \E f \in (IF srvLog = << >> THEN HandshakeAnswers ELSE StreamFrames) :
          /\ inbox' = Append(inbox, f)
          /\ srvLog' = Append(srvLog, f)
    /\ UNCHANGED << mode, pureVars, webVars, wsState, nRead, sent, connects, lateSend,
                    clientVars, recorderVars, mainVars, batchVars >>

\* The far end answers the handshake and then emits result frames and
\* malformed frames
ServerSendMalformed ==
    /\ mode \in { "api", "batch" }
    /\ wsState = "open"
    /\ Len(srvLog) < MaxServerFrames
    /\ \E f \in (IF srvLog = << >> THEN { HS_OK } ELSE { RES_A } \cup MalformedFrames) :
          /\ inbox' = Append(inbox, f)
          /\ srvLog' = Append(srvLog, f)
    /\ UNCHANGED << mode, pureVars, webVars, wsState, nRead, sent, connects, lateSend,
                    clientVars, recorderVars, mainVars, batchVars >>

\* The connection is reset or closed by the far end
ServerClose ==
    /\ SessionMode
    /\ wsState = "open"
    /\ wsState' = "closed"
    /\ UNCHANGED << mode, pureVars, webVars, inbox, srvLog, nRead, sent, connects, lateSend,
                    clientVars, recorderVars, mainVars, batchVars >>

(***************************************************************************)
(* RealtimeAudioRecorder                                                   *)
(***************************************************************************)
\* _audio_callback, on the audio thread
AudioCallback ==
    /\ mode \in { "main_async", "api" }
    /\ recording
    /\ produced < MaxChunks
    /\ audio_queue' = Append(audio_queue, << produced + 1 >>)
    /\ produced' = produced + 1
    /\ UNCHANGED << mode, pureVars, webVars, wireVars, clientVars, recording, left_over, mainVars,
                    batchVars >>

(***************************************************************************)
(* RealtimeVoiceRecognitionClient.  One action is one stretch of code      *)
(* between two awaits; ws.send writes its frame and then suspends.         *)
(***************************************************************************)
\* The event loop is held by the sender while get_audio_chunk keeps timing
\* out and the loop continues without an await
LoopFree == sendPc # "spin"

Streaming == startPc = "gather"

\* start_recognition up to "await websockets.connect": a new attempt, with
\* a new transport
StartBegin ==
    /\ recognized_text' = << >>
    /\ seq' = 1
    /\ recognition_active' = TRUE
    /\ startPc' = "connect"
    /\ sendPc' = "none"
    /\ recvPc' = "none"
    /\ wsState' = "none"
    /\ inbox' = << >>
    /\ srvLog' = << >>
    /\ nRead' = 0
    /\ sent' = << >>
    /\ connects' = 0
    /\ left_over' = audio_queue
    /\ UNCHANGED << ws, printed, lateSend >>

\* start_recognition returns: main_async, which awaited it, is back in its
\* key loop
StartReturns ==
    /\ startPc' = "done"
    /\ mainPc' = IF mode = "main_async" THEN "keys" ELSE mainPc

\* A finally block that releases self.ws without closing the connection
StartFinally_NoClose ==
    IF ws
    THEN /\ startPc' = "closing"
         /\ UNCHANGED << wsState, mainPc >>
    ELSE /\ StartReturns
         /\ UNCHANGED wsState

\* The finally block of start_recognition
StartFinally ==
    IF ws
    THEN /\ wsState' = "closed"
         /\ startPc' = "closing"
         /\ UNCHANGED mainPc
    ELSE /\ StartReturns
         /\ UNCHANGED wsState

\* connect returns: the handshake frame, built with sequence 1 before the
\* connect, is sent; or connect raises
StartConnect ==
    /\ mode \in { "main_async", "api" }
    /\ LoopFree
    /\ startPc = "connect"
    /\ \/ /\ wsState' = "open"
          /\ ws' = TRUE
          /\ connects' = connects + 1
          /\ sent' = Append(sent, SentEntry(full_client_request(1)))
          /\ startPc' = "recv_hs"
          /\ UNCHANGED << printed, mainPc >>
       \/ /\ printed' = printed \cup { "start_error" }
          /\ StartFinally
          /\ UNCHANGED << ws, connects, sent >>
    /\ UNCHANGED << mode, pureVars, webVars, inbox, srvLog, nRead, lateSend,
                    recognized_text, seq, recognition_active, sendPc, recvPc, stopPc,
                    finalShown, recorderVars, stdin, typed, eWhileStreaming, batchVars >>

\* "res = await self.ws.recv()" of the handshake, parse_response, and either
\* the early return or the creation of the two tasks
StartRecvHandshake ==
    /\ mode \in { "main_async", "api" }
    /\ LoopFree
    /\ startPc = "recv_hs"
    /\ \/ /\ inbox # << >>
          /\ inbox' = Tail(inbox)
          /\ nRead' = nRead + 1
          /\ IF "error" \in received[Head(inbox)].keys
             THEN /\ printed' = printed \cup { "init_failed" }
                  /\ StartFinally
                  /\ UNCHANGED << sendPc, recvPc >>
             ELSE /\ startPc' = "gather"
                  /\ sendPc' = "start"
                  /\ recvPc' = "start"
                  /\ UNCHANGED << printed, wsState, mainPc >>
       \/ /\ wsState = "closed"
          /\ printed' = printed \cup { "start_error" }
          /\ StartFinally
          /\ UNCHANGED << inbox, nRead, sendPc, recvPc >>
    /\ UNCHANGED << mode, pureVars, webVars, srvLog, sent, connects, lateSend,
                    recognized_text, ws, seq, recognition_active, stopPc,
                    finalShown, recorderVars, stdin, typed, eWhileStreaming, batchVars >>

\* asyncio.gather returns once both tasks have ended
StartGatherDone ==
    /\ mode \in { "main_async", "api" }
    /\ LoopFree
    /\ startPc = "gather"
    /\ sendPc = "done"
    /\ recvPc = "done"
    /\ StartFinally
    /\ UNCHANGED << mode, pureVars, webVars, inbox, srvLog, nRead, sent, connects, lateSend,
                    recognized_text, ws, seq, recognition_active, sendPc, recvPc, stopPc,
                    printed, finalShown, recorderVars, stdin, typed, eWhileStreaming,
                    batchVars >>

\* "await self.ws.close()" of the finally block returns; self.ws = None
StartClosed ==
    /\ mode \in { "main_async", "api" }
    /\ LoopFree
    /\ startPc = "closing"
    /\ ws' = FALSE
    /\ StartReturns
    /\ UNCHANGED << mode, pureVars, webVars, wireVars,
                    recognized_text, seq, recognition_active, sendPc, recvPc, stopPc,
                    printed, finalShown, recorderVars, stdin, typed, eWhileStreaming,
                    batchVars >>

\* _send_audio_data framing the chunk without "self.seq += 1"
SendChunk_NoIncrement(audio_chunk) ==
    /\ seq' = seq
    /\ IF ws
       THEN IF wsState = "open"
            THEN /\ sent' = Append(sent, SentEntry(audio_request(seq, audio_chunk)))
                 /\ sendPc' = "sleep"
                 /\ UNCHANGED printed
            ELSE /\ printed' = printed \cup { "send_error" }
                 /\ sendPc' = "done"
                 /\ UNCHANGED sent
       ELSE /\ sendPc' = "sleep"
            /\ UNCHANGED << sent, printed >>
    /\ lateSend' = (lateSend \/ (ws /\ startPc = "done"))

\* _send_audio_data from a chunk in hand to the next suspension
SendChunk(audio_chunk) ==
    /\ seq' = seq + 1
    /\ IF ws
       THEN IF wsState = "open"
            THEN /\ sent' = Append(sent, SentEntry(audio_request(seq + 1, audio_chunk)))
                 /\ sendPc' = "sleep"
                 /\ UNCHANGED printed
            ELSE /\ printed' = printed \cup { "send_error" }
                 /\ sendPc' = "done"
                 /\ UNCHANGED sent
       ELSE /\ sendPc' = "sleep"
            /\ UNCHANGED << sent, printed >>
    /\ lateSend' = (lateSend \/ (ws /\ startPc = "done"))

\* A sender whose loop tests audio_recorder.recording only
SenderRun_IgnoresStop ==
    /\ mode \in { "main_async", "api" }
    /\ LoopFree
    /\ sendPc \in { "start", "sleep" }
    /\ IF ~recording
       THEN /\ sendPc' = "done"
            /\ UNCHANGED << seq, sent, printed, lateSend, audio_queue >>
       ELSE IF audio_queue # << >>
       THEN /\ SendChunk(Head(audio_queue))
            /\ audio_queue' = Tail(audio_queue)
       ELSE /\ sendPc' = "spin"
            /\ UNCHANGED << seq, sent, printed, lateSend, audio_queue >>
    /\ UNCHANGED << mode, pureVars, webVars, wsState, inbox, srvLog, nRead, connects,
                    recognized_text, ws, recognition_active, startPc, recvPc, stopPc,
                    finalShown, recording, produced, left_over, mainVars, batchVars >>

\* The sender task runs: loop test, get_audio_chunk, and a send when a
\* chunk is there
SenderRun ==
    /\ mode \in { "main_async", "api" }
    /\ LoopFree
    /\ sendPc \in { "start", "sleep" }
    /\ IF ~(recognition_active /\ recording)
       THEN /\ sendPc' = "done"
            /\ UNCHANGED << seq, sent, printed, lateSend, audio_queue >>
       ELSE IF audio_queue # << >>
       THEN /\ SendChunk(Head(audio_queue))
            /\ audio_queue' = Tail(audio_queue)
       ELSE /\ sendPc' = "spin"
            /\ UNCHANGED << seq, sent, printed, lateSend, audio_queue >>
    /\ UNCHANGED << mode, pureVars, webVars, wsState, inbox, srvLog, nRead, connects,
                    recognized_text, ws, recognition_active, startPc, recvPc, stopPc,
                    finalShown, recording, produced, left_over, mainVars, batchVars >>

\* get_audio_chunk returns a chunk to the sender that was looping on the
\* empty queue
SenderSpin ==
    /\ mode \in { "main_async", "api" }
    /\ sendPc = "spin"
    /\ audio_queue # << >>
    /\ SendChunk(Head(audio_queue))
    /\ audio_queue' = Tail(audio_queue)
    /\ UNCHANGED << mode, pureVars, webVars, wsState, inbox, srvLog, nRead, connects,
                    recognized_text, ws, recognition_active, startPc, recvPc, stopPc,
                    finalShown, recording, produced, left_over, mainVars, batchVars >>

\* The keys the loops look up in payload_msg, as bytes
RESULT_KEY == << 114, 101, 115, 117, 108, 116 >>
CODE_KEY == << 99, 111, 100, 101 >>

\* payload_msg is there and truthy
PayloadTruthy(result) ==
    /\ "payload_msg" \in result.keys
    /\ \/ /\ result.payload_msg.kind = "json"
          /\ result.payload_msg.doc.hasResult \/ result.payload_msg.doc.hasCode
       \/ result.payload_msg.kind \in { "str", "bytes" } /\ result.payload_msg.raw # << >>

\* "if 'result' in msg and msg['result']" raises: TypeError for the test
\* of a str in bytes, and for the subscript of a str by a str
ProcessingRaises(result) ==
    /\ PayloadTruthy(result)
    /\ \/ result.payload_msg.kind = "bytes"
       \/ /\ result.payload_msg.kind = "str"
          /\ Contains(result.payload_msg.raw, RESULT_KEY)

\* "'code' in result['payload_msg']" of recognize_audio raises likewise
HandshakeCheckRaises(result) ==
    /\ "payload_msg" \in result.keys
    /\ \/ result.payload_msg.kind = "bytes"
       \/ /\ result.payload_msg.kind = "str"
          /\ Contains(result.payload_msg.raw, CODE_KEY)

\* What processing says of each frame the far end can emit, as tables
processing_raises == [ res \in FarEndFrames |-> ProcessingRaises(parse_response(res)) ]
processing_raises_bigmodel ==
    [ res \in FarEndFrames |-> ProcessingRaises(parse_response_bigmodel(res)) ]
handshake_check_raises ==
    [ res \in FarEndFrames |-> HandshakeCheckRaises(parse_response_bigmodel(res)) ]

\* The text a parsed response contributes, << >> when none
ResponseText(result) ==
    IF /\ "payload_msg" \in result.keys
       /\ result.payload_msg.kind = "json"
       /\ result.payload_msg.doc.hasResult
    THEN Strip(result.payload_msg.doc.text)
    ELSE << >>

\* The receiver task starts
ReceiverStart ==
    /\ mode \in { "main_async", "api" }
    /\ LoopFree
    /\ recvPc = "start"
    /\ recvPc' = IF recognition_active /\ ws THEN "recv" ELSE "done"
    /\ UNCHANGED << mode, pureVars, webVars, wireVars,
                    recognized_text, ws, seq, recognition_active, startPc, sendPc, stopPc,
                    printed, finalShown, recorderVars, mainVars, batchVars >>

\* recv returns a frame: parse_response, _update_recognized_text, loop test
ReceiverFrame ==
    /\ mode \in { "main_async", "api" }
    /\ LoopFree
    /\ recvPc = "recv"
    /\ inbox # << >>
    /\ inbox' = Tail(inbox)
    /\ nRead' = nRead + 1
    /\ IF processing_raises[Head(inbox)]
       THEN /\ recvPc' = "done"
            /\ printed' = IF recognition_active THEN printed \cup { "recv_error" } ELSE printed
            /\ UNCHANGED recognized_text
       ELSE /\ LET text == ResponseText(received[Head(inbox)])
               IN  recognized_text' = IF text # << >>
                                      THEN update_recognized_text(recognized_text, text)
                                      ELSE recognized_text
            /\ recvPc' = IF recognition_active /\ ws THEN "recv" ELSE "done"
            /\ UNCHANGED printed
    /\ UNCHANGED << mode, pureVars, webVars, wsState, srvLog, sent, connects, lateSend,
                    ws, seq, recognition_active, startPc, sendPc, stopPc,
                    finalShown, recorderVars, mainVars, batchVars >>

\* wait_for times out after a second without a frame: continue, loop test
ReceiverTimeout ==
    /\ mode \in { "main_async", "api" }
    /\ LoopFree
    /\ recvPc = "recv"
    /\ inbox = << >>
    /\ wsState = "open"
    /\ recvPc' = IF recognition_active /\ ws THEN "recv" ELSE "done"
    /\ UNCHANGED << mode, pureVars, webVars, wireVars,
                    recognized_text, ws, seq, recognition_active, startPc, sendPc, stopPc,
                    printed, finalShown, recorderVars, mainVars, batchVars >>

\* recv raises on the closed connection: break
ReceiverClosed ==
    /\ mode \in { "main_async", "api" }
    /\ LoopFree
    /\ recvPc = "recv"
    /\ wsState = "closed"
    /\ recvPc' = "done"
    /\ printed' = IF recognition_active THEN printed \cup { "recv_error" } ELSE printed
    /\ UNCHANGED << mode, pureVars, webVars, wireVars,
                    recognized_text, ws, seq, recognition_active, startPc, sendPc, stopPc,
                    finalShown, recorderVars, mainVars, batchVars >>

\* recorder.stop_recording()
StopRecording == recording' = FALSE

\* stop_recognition returns into its caller, which stops the recorder
\* (recorder.stop_recording(), or recorder.cleanup() when main_async is
\* leaving), without an await in between
StopReturns(pc) ==
    /\ stopPc' = "done"
    /\ finalShown' = << recognized_text >>
    /\ StopRecording
    /\ mainPc' = IF pc = "in_stop" THEN "keys"
                 ELSE IF pc = "final_stop" THEN "exited"
                 ELSE mainPc

\* stop_recognition raises into its caller: main_async reports it and
\* leaves through its finally block
StopRaises ==
    /\ stopPc' = "raised"
    /\ IF mode = "main_async"
       THEN /\ printed' = printed \cup { "program_error" }
            /\ StopRecording
            /\ mainPc' = "exited"
       ELSE UNCHANGED << printed, recording, mainPc >>

\* stop_recognition up to its first suspension; pc is where main_async
\* awaits it ("in_stop" after 'e', "final_stop" in its finally block)
StopBegin(pc) ==
    /\ recognition_active' = FALSE
    /\ IF ws
       THEN /\ seq' = -seq
            /\ lateSend' = (lateSend \/ startPc = "done")
            /\ IF wsState = "open"
               THEN /\ sent' = Append(sent, SentEntry(end_request(-seq)))
                    /\ stopPc' = "sleep"
               ELSE /\ stopPc' = "closing"
                    /\ UNCHANGED sent
            /\ mainPc' = pc
            /\ UNCHANGED << finalShown, recording >>
       ELSE /\ StopReturns(pc)
            /\ UNCHANGED << seq, sent, lateSend >>

\* After the half second of grace: "await self.ws.close()"
StopAfterSleep ==
    /\ mode \in { "main_async", "api" }
    /\ LoopFree
    /\ stopPc = "sleep"
    /\ IF ws
       THEN /\ wsState' = "closed"
            /\ stopPc' = "closing"
            /\ UNCHANGED << printed, recording, mainPc >>
       ELSE /\ StopRaises
            /\ UNCHANGED wsState
    /\ UNCHANGED << mode, pureVars, webVars, inbox, srvLog, nRead, sent, connects, lateSend,
                    recognized_text, ws, seq, recognition_active, startPc, sendPc, recvPc,
                    finalShown, audio_queue, produced, left_over, stdin, typed,
                    eWhileStreaming,
                    batchVars >>

\* close returns: self.ws = None and the final result is displayed
StopClosed ==
    /\ mode \in { "main_async", "api" }
    /\ LoopFree
    /\ stopPc = "closing"
    /\ ws' = FALSE
    /\ StopReturns(mainPc)
    /\ UNCHANGED << mode, pureVars, webVars, wireVars,
                    recognized_text, seq, recognition_active, startPc, sendPc, recvPc,
                    printed, audio_queue, produced, left_over, stdin, typed,
                    eWhileStreaming,
                    batchVars >>

(***************************************************************************)
(* main_async: the key loop of the realtime tool.  start_recognition and   *)
(* stop_recognition are awaited in the loop itself, so no key is read      *)
(* while one of them is in progress.                                       *)
(***************************************************************************)
\* The user types a key; it waits in stdin until get_char reads it.  The
\* keys are read one at a time, so a key typed ahead of another that is
\* still waiting leads to the same reads as the same key typed later: the
\* model has one key waiting at most
UserType ==
    /\ mode = "main_async"
    /\ mainPc # "exited"
    /\ stdin = << >>
    /\ typed < MaxKeys
    /\ \E k \in { "s", "e", "q" } :
          /\ stdin' = Append(stdin, k)
          /\ eWhileStreaming' = (eWhileStreaming \/ (k = "e" /\ Streaming))
    /\ typed' = typed + 1
    /\ UNCHANGED << mode, pureVars, webVars, wireVars, clientVars, recorderVars, mainPc, batchVars >>

\* The user types a key, often enough for a session to be stopped and
\* another to be started
UserTypeAgain ==
    /\ mode = "main_async"
    /\ mainPc # "exited"
    /\ stdin = << >>
    /\ typed < MaxSessionKeys
    /\ \E k \in { "s", "e", "q" } :
          /\ stdin' = Append(stdin, k)
          /\ eWhileStreaming' = (eWhileStreaming \/ (k = "e" /\ Streaming))
    /\ typed' = typed + 1
    /\ UNCHANGED << mode, pureVars, webVars, wireVars, clientVars, recorderVars, mainPc, batchVars >>

\* get_char returns 's': start_recording (which may fail), then
\* start_recognition is awaited
MainKeyS ==
    /\ mode = "main_async"
    /\ mainPc = "keys"
    /\ stdin # << >>
    /\ Head(stdin) = "s"
    /\ stdin' = Tail(stdin)
    /\ IF ~recording
       THEN \/ /\ recording' = TRUE
               /\ StartBegin
               /\ stopPc' = "idle"
               /\ finalShown' = << >>
               /\ eWhileStreaming' = FALSE
               /\ mainPc' = "in_start"
            \/ /\ UNCHANGED << wireVars, clientVars, recording, left_over, mainPc,
                               eWhileStreaming >>
       ELSE UNCHANGED << wireVars, clientVars, recording, left_over, mainPc, eWhileStreaming >>
    /\ UNCHANGED << mode, pureVars, webVars, audio_queue, produced, typed, batchVars >>

\* get_char returns 'e': stop_recognition is awaited, then stop_recording
MainKeyE ==
    /\ mode = "main_async"
    /\ mainPc = "keys"
    /\ stdin # << >>
    /\ Head(stdin) = "e"
    /\ stdin' = Tail(stdin)
    /\ IF recording
       THEN /\ StopBegin("in_stop")
            /\ UNCHANGED << wsState, inbox, srvLog, nRead, connects,
                            recognized_text, ws, startPc, sendPc, recvPc, printed >>
       ELSE UNCHANGED << wireVars, clientVars, recording, mainPc >>
    /\ UNCHANGED << mode, pureVars, webVars, audio_queue, produced, left_over, typed, eWhileStreaming,
                    batchVars >>

\* get_char returns 'q': break, and the finally block of main_async
MainKeyQ ==
    /\ mode = "main_async"
    /\ mainPc = "keys"
    /\ stdin # << >>
    /\ Head(stdin) = "q"
    /\ stdin' = Tail(stdin)
    /\ IF recognition_active
       THEN /\ StopBegin("final_stop")
            /\ UNCHANGED << wsState, inbox, srvLog, nRead, connects,
                            recognized_text, ws, startPc, sendPc, recvPc, printed >>
       ELSE /\ StopRecording
            /\ mainPc' = "exited"
            /\ UNCHANGED << wireVars, clientVars >>
    /\ UNCHANGED << mode, pureVars, webVars, audio_queue, produced, left_over, typed, eWhileStreaming,
                    batchVars >>

(***************************************************************************)
(* A caller of the client class that runs start_recognition as a task and  *)
(* calls stop_recognition while it is in progress                          *)
(***************************************************************************)
ApiStart ==
    /\ mode = "api"
    /\ startPc = "idle"
    /\ recording' = TRUE
    /\ StartBegin
    /\ UNCHANGED << mode, pureVars, webVars, stopPc, finalShown, audio_queue, produced,
                    mainVars, batchVars >>

ApiStop ==
    /\ mode = "api"
    /\ LoopFree
    /\ startPc # "idle"
    /\ stopPc = "idle"
    /\ StopBegin(mainPc)
    /\ UNCHANGED << mode, pureVars, webVars, wsState, inbox, srvLog, nRead, connects,
                    recognized_text, ws, startPc, sendPc, recvPc, printed,
                    audio_queue, produced, left_over, stdin, typed, eWhileStreaming,
                    batchVars >>

(***************************************************************************)
(* BigModelASRClient.recognize_audio                                       *)
(***************************************************************************)
RATE == 16000
CHANNELS == 1
seg_duration == 100

\* segment_size, in blocks of audio_data
segment_size == ((RATE * 2 * CHANNELS * seg_duration) \div 1000) \div BlockBytes

\* Chunks that each run one block into the next: audio_data[i:i+segment_size+1]
chunks_of_overlapping(data) ==
    [ i \in 1..((Len(data) + segment_size - 1) \div segment_size) |->
        SubSeq(data, (i - 1) * segment_size + 1,
               IF i * segment_size + 1 < Len(data) THEN i * segment_size + 1 ELSE Len(data)) ]

\* chunks = [audio_data[i:i+segment_size] for i in range(0, len(audio_data), segment_size)]
chunks_of(data) ==
    [ i \in 1..((Len(data) + segment_size - 1) \div segment_size) |->
        SubSeq(data, (i - 1) * segment_size + 1,
               IF i * segment_size < Len(data) THEN i * segment_size ELSE Len(data)) ]

ErrorResult(what) == [kind |-> "error", error |-> what, text |-> << >>, chunks_processed |-> 0]

SuccessResult(text, n) ==
    [kind |-> "success", error |-> "", text |-> text, chunks_processed |-> n]

\* return from inside "async with": the result is set and the connection
\* is closed on the way out
BatchReturn(result) ==
    /\ bResult' = result
    /\ bPc' = "closing"

\* One turn of the for loop in which the sequence number of the last chunk
\* is not negated
BatchSendChunk_NoNegate(i) ==
    LET chunks == chunks_of(audio_data)
        is_last == (i = Len(chunks))
        seq1 == bSeq + 1
    IN  /\ bSeq' = seq1
        /\ bIndex' = i
        /\ IF wsState = "open"
           THEN /\ sent' = Append(sent, [frame |-> audio_request_bigmodel(seq1, chunks[i], is_last),
                                         nread |-> nRead', slen |-> Len(srvLog)])
                /\ bPc' = "recv_chunk"
                /\ UNCHANGED bResult
           ELSE /\ BatchReturn(ErrorResult("connection_closed"))
                /\ UNCHANGED sent

\* One turn of the for loop up to "res = await ws.recv()": chunk number
\* bIndex' (from 1) is framed and sent
BatchSendChunk(i) ==
    LET chunks == chunks_of(audio_data)
        is_last == (i = Len(chunks))
        seq1 == bSeq + 1
        seq2 == IF is_last THEN -seq1 ELSE seq1
    IN  /\ bSeq' = seq2
        /\ bIndex' = i
        /\ IF wsState = "open"
           THEN /\ sent' = Append(sent, [frame |-> audio_request_bigmodel(seq2, chunks[i], is_last),
                                         nread |-> nRead', slen |-> Len(srvLog)])
                /\ bPc' = "recv_chunk"
                /\ UNCHANGED bResult
           ELSE /\ BatchReturn(ErrorResult("connection_closed"))
                /\ UNCHANGED sent

BatchBegin ==
    /\ mode = "batch"
    /\ bPc = "call"
    /\ IF audio_data = << >>
       THEN /\ bResult' = ErrorResult("no_audio")
            /\ bPc' = "done"
            /\ UNCHANGED bSeq
       ELSE /\ bSeq' = 1
            /\ bPc' = "connect"
            /\ UNCHANGED bResult
    /\ UNCHANGED << mode, pureVars, webVars, wireVars, clientVars, recorderVars, mainVars,
                    audio_data, bIndex, recognition_results >>

\* websockets.connect returns and the handshake frame is sent, or it raises
BatchConnect ==
    /\ mode = "batch"
    /\ bPc = "connect"
    /\ \/ /\ wsState' = "open"
          /\ connects' = connects + 1
          /\ sent' = Append(sent, SentEntry(full_client_request_bigmodel(bSeq)))
          /\ bPc' = "recv_hs"
          /\ UNCHANGED bResult
       \/ /\ bResult' = ErrorResult("exception")
          /\ bPc' = "done"
          /\ UNCHANGED << wsState, connects, sent >>
    /\ UNCHANGED << mode, pureVars, webVars, inbox, srvLog, nRead, lateSend,
                    clientVars, recorderVars, mainVars,
                    bSeq, audio_data, bIndex, recognition_results >>

\* The response to the handshake is read and checked; the first chunk is
\* sent when it passes
BatchRecvHandshake ==
    /\ mode = "batch"
    /\ bPc = "recv_hs"
    /\ \/ /\ inbox # << >>
          /\ inbox' = Tail(inbox)
          /\ nRead' = nRead + 1
          /\ LET result == received_bigmodel[Head(inbox)]
             IN  IF "error" \in result.keys
                 THEN /\ BatchReturn(ErrorResult("too_short"))
                      /\ UNCHANGED << sent, bSeq, bIndex >>
                 ELSE IF handshake_check_raises[Head(inbox)]
                 THEN /\ BatchReturn(ErrorResult("exception"))
                      /\ UNCHANGED << sent, bSeq, bIndex >>
                 ELSE IF /\ "payload_msg" \in result.keys
                         /\ result.payload_msg.kind = "json"
                         /\ result.payload_msg.doc.hasCode
                         /\ result.payload_msg.doc.code # PAYLOAD_OK
                 THEN /\ BatchReturn(ErrorResult("server_error"))
                      /\ UNCHANGED << sent, bSeq, bIndex >>
                 ELSE BatchSendChunk(1)
       \/ /\ wsState = "closed"
          /\ BatchReturn(ErrorResult("connection_closed"))
          /\ UNCHANGED << inbox, nRead, sent, bSeq, bIndex >>
    /\ UNCHANGED << mode, pureVars, webVars, wsState, srvLog, connects, lateSend,
                    clientVars, recorderVars, mainVars, audio_data, recognition_results >>

\* A loop that reads a response after the last chunk only: the chunks
\* before it are sent back to back
BatchRecvChunk_NoRead ==
    /\ mode = "batch"
    /\ bPc = "recv_chunk"
    /\ \/ /\ bIndex < Len(chunks_of(audio_data))
          /\ UNCHANGED << inbox, nRead, recognition_results >>
          /\ BatchSendChunk(bIndex + 1)
       \/ /\ bIndex >= Len(chunks_of(audio_data))
          /\ inbox # << >>
          /\ inbox' = Tail(inbox)
          /\ nRead' = nRead + 1
          /\ BatchReturn(SuccessResult(Join(recognition_results), Len(chunks_of(audio_data))))
          /\ UNCHANGED << sent, bSeq, bIndex, recognition_results >>
       \/ /\ wsState = "closed"
          /\ BatchReturn(ErrorResult("connection_closed"))
          /\ UNCHANGED << inbox, nRead, sent, bSeq, bIndex, recognition_results >>
    /\ UNCHANGED << mode, pureVars, webVars, wsState, srvLog, connects, lateSend,
                    clientVars, recorderVars, mainVars, audio_data >>

\* The response to a chunk is read; the next chunk is sent, or the joined
\* text is returned after the last one
BatchRecvChunk ==
    /\ mode = "batch"
    /\ bPc = "recv_chunk"
    /\ \/ /\ inbox # << >>
          /\ inbox' = Tail(inbox)
          /\ nRead' = nRead + 1
          /\ LET result == received_bigmodel[Head(inbox)]
                 text == IF /\ "payload_msg" \in result.keys
                            /\ result.payload_msg.kind = "json"
                            /\ result.payload_msg.doc.hasResult
                         THEN result.payload_msg.doc.text
                         ELSE << >>
                 results == IF text # << >> THEN Append(recognition_results, text)
                            ELSE recognition_results
             IN  IF processing_raises_bigmodel[Head(inbox)]
                 THEN /\ BatchReturn(ErrorResult("exception"))
                      /\ UNCHANGED << sent, bSeq, bIndex, recognition_results >>
                 ELSE /\ recognition_results' = results
                      /\ IF bIndex < Len(chunks_of(audio_data))
                         THEN BatchSendChunk(bIndex + 1)
                         ELSE /\ BatchReturn(SuccessResult(Join(results),
                                                           Len(chunks_of(audio_data))))
                              /\ UNCHANGED << sent, bSeq, bIndex >>
       \/ /\ wsState = "closed"
          /\ BatchReturn(ErrorResult("connection_closed"))
          /\ UNCHANGED << inbox, nRead, sent, bSeq, bIndex, recognition_results >>
    /\ UNCHANGED << mode, pureVars, webVars, wsState, srvLog, connects, lateSend,
                    clientVars, recorderVars, mainVars, audio_data >>

\* "async with" closes the connection on the way out; recognize_audio returns
BatchClosed ==
    /\ mode = "batch"
    /\ bPc = "closing"
    /\ wsState' = "closed"
    /\ bPc' = "done"
    /\ UNCHANGED << mode, pureVars, webVars, inbox, srvLog, nRead, sent, connects, lateSend,
                    clientVars, recorderVars, mainVars,
                    bSeq, audio_data, bIndex, recognition_results, bResult >>

(***************************************************************************)
(* Specifications                                                          *)
(***************************************************************************)
AudioInputs == { [ i \in 1..n |-> i ] : n \in 0..MaxAudioLen }

Init ==
    /\ mode \in { "main_async", "api", "batch" }
    /\ CodecIdle /\ WireIdle /\ ClientInit /\ RecorderInit /\ MainIdle /\ WebIdle
    /\ reconciled = << >>
    /\ bPc = IF mode = "batch" THEN "call" ELSE "off"
    /\ bSeq = 0
    /\ audio_data \in (IF mode = "batch" THEN AudioInputs ELSE { << >> })
    /\ bIndex = 0
    /\ recognition_results = << >>
    /\ bResult = NoResult

Next ==
    \/ ServerSend
    \/ ServerClose
    \/ AudioCallback
    \/ UserType
    \/ MainKeyS
    \/ MainKeyE
    \/ MainKeyQ
    \/ ApiStart
    \/ ApiStop
    \/ StartConnect
    \/ StartRecvHandshake
    \/ StartGatherDone
    \/ StartClosed
    \/ SenderRun
    \/ SenderSpin
    \/ ReceiverStart
    \/ ReceiverFrame
    \/ ReceiverTimeout
    \/ ReceiverClosed
    \/ StopAfterSleep
    \/ StopClosed
    \/ BatchBegin
    \/ BatchConnect
    \/ BatchRecvHandshake
    \/ BatchRecvChunk
    \/ BatchClosed

Spec == Init /\ [][Next]_vars

\* The realtime tool with sessions that follow one another on the same
\* recorder and client.  main_async reads 'e' only when no session is in
\* progress, so its stop_recognition finds self.ws released and returns at
\* once.
InitRestart ==
    /\ Init
    /\ mode = "main_async"

NextRestart ==
    \/ ServerSend
    \/ ServerClose
    \/ AudioCallback
    \/ UserTypeAgain
    \/ MainKeyS
    \/ MainKeyE
    \/ MainKeyQ
    \/ StartConnect
    \/ StartRecvHandshake
    \/ StartGatherDone
    \/ StartClosed
    \/ SenderRun
    \/ SenderSpin
    \/ ReceiverStart
    \/ ReceiverFrame
    \/ ReceiverTimeout
    \/ ReceiverClosed

SpecRestart == InitRestart /\ [][NextRestart]_vars

\* Sessions of the api and of the batch tool against a far end that also
\* emits malformed frames
InitMalformed ==
    /\ Init
    /\ mode \in { "api", "batch" }

NextMalformed ==
    \/ ServerSendMalformed
    \/ ServerClose
    \/ AudioCallback
    \/ ApiStart
    \/ ApiStop
    \/ StartConnect
    \/ StartRecvHandshake
    \/ StartGatherDone
    \/ StartClosed
    \/ SenderRun
    \/ SenderSpin
    \/ ReceiverStart
    \/ ReceiverFrame
    \/ ReceiverTimeout
    \/ ReceiverClosed
    \/ StopAfterSleep
    \/ StopClosed
    \/ BatchBegin
    \/ BatchConnect
    \/ BatchRecvHandshake
    \/ BatchRecvChunk
    \/ BatchClosed

SpecMalformed == InitMalformed /\ [][NextMalformed]_vars

\* recognize_audio alone, with the progress asyncio gives it: a step of
\* recognize_audio that can be taken is taken; the far end owes nothing
InitBatch == Init /\ mode = "batch"

BatchStep ==
    \/ BatchBegin
    \/ BatchConnect
    \/ BatchRecvHandshake
    \/ BatchRecvChunk
    \/ BatchClosed

NextBatch ==
    \/ ServerSend
    \/ ServerClose
    \/ BatchBegin
    \/ BatchConnect
    \/ BatchRecvHandshake
    \/ BatchRecvChunk
    \/ BatchClosed

FairBatchSpec == InitBatch /\ [][NextBatch]_vars /\ WF_vars(BatchStep)

(***************************************************************************)
(* Claims about the sessions                                               *)
(***************************************************************************)
Realtime == mode \in { "main_async", "api" }

IsAudio(e) == FrameType(e.frame) = AUDIO_ONLY_REQUEST
IsPositiveAudio(e) == IsAudio(e) /\ FrameSequence(e.frame) > 0
IsTermination(e) == IsAudio(e) /\ FrameSequence(e.frame) < 0
\* A frame that carries audio samples (the end frame of stop_recognition
\* carries none)
CarriesAudio(e) == IsAudio(e) /\ FramePayloadSize(e.frame) > 0

\* The positive-sequence audio frames among the first k frames sent
AudioBefore(k) == SelectSeq(SubSeq(sent, 1, k), IsPositiveAudio)

\* The audio frames of a realtime session carry 2, 3, ..., N+1 in send order
RealtimeAudioSequences ==
    Realtime =>
        \A i \in 1..Len(AudioBefore(Len(sent))) :
            FrameSequence(AudioBefore(Len(sent))[i].frame) = i + 1

\* C1: in a realtime session with N audio frames between the handshake and
\* the stop, the audio frames carry 2, 3, ..., N+1 in send order and the
\* termination frame of stop_recognition carries -(N+2).
C1_RealtimeSequenceNumbers ==
    /\ RealtimeAudioSequences
    /\ Realtime =>
          \A k \in 1..Len(sent) :
              IsTermination(sent[k]) =>
                  FrameSequence(sent[k].frame) = -(Len(AudioBefore(k - 1)) + 2)

\* What the code does instead: the termination frame negates the sequence
\* number of the last frame sent, -(N+1)
RealtimeTerminationReusesLast ==
    Realtime =>
        \A k \in 1..Len(sent) :
            IsTermination(sent[k]) =>
                FrameSequence(sent[k].frame) = -(Len(AudioBefore(k - 1)) + 1)

\* The far end answered the handshake with success and then emitted a
\* result t1 and a result t2 that extends t1 and is flagged last; the
\* client has read all three
TwoResultsRead ==
    /\ srvLog = << HS_OK, RES_A, RES_AB_LAST >>
    /\ nRead = 3

\* C2: after a successful handshake and two results t1, t2 (t2 extends t1,
\* the second flagged last), a session that completes returns or displays
\* exactly t2 as the final transcript, in either mode.
C2_FinalTranscriptIsLastResult ==
    /\ (mode = "batch" /\ bPc = "done" /\ bResult.kind = "success" /\ TwoResultsRead)
          => bResult.text = TEXT_AB
    /\ (Realtime /\ stopPc = "done" /\ TwoResultsRead) => finalShown = << TEXT_AB >>

\* The batch half of C2 alone, and what recognize_audio returns instead
C2_BatchOnly ==
    (mode = "batch" /\ bPc = "done" /\ bResult.kind = "success" /\ TwoResultsRead)
        => bResult.text = TEXT_AB

BatchJoinsResults ==
    (mode = "batch" /\ bPc = "done" /\ bResult.kind = "success" /\ TwoResultsRead)
        => bResult.text = TEXT_A \o << CH_SPACE >> \o TEXT_AB

\* C3: when the first frame read after the handshake request is a
\* ServerErrorResponse or cannot be decoded, no audio frame is ever sent on
\* the session and no transcript is produced, in either mode.
C3_HandshakeFailureStops ==
    (nRead >= 1 /\ srvLog[1] \in { ERR_FRAME, SHORT_FRAME }) =>
        /\ \A k \in 1..Len(sent) : ~CarriesAudio(sent[k])
        /\ recognized_text = << >>
        /\ bResult.kind # "success"

\* The undecodable half of C3, which the code keeps: a too short answer
\* ends the attempt before any audio frame
ShortAnswerStops ==
    (nRead >= 1 /\ srvLog[1] = SHORT_FRAME) =>
        /\ \A k \in 1..Len(sent) : ~CarriesAudio(sent[k])
        /\ recognized_text = << >>
        /\ bResult.kind # "success"

\* The termination frame has been sent and the far end has emitted nothing
\* since
TerminationSent == \E k \in 1..Len(sent) : IsTermination(sent[k])

SilentSinceTermination ==
    \A k \in 1..Len(sent) : IsTermination(sent[k]) => Len(srvLog) = sent[k].slen

AttemptOver ==
    \/ mode = "batch" /\ bPc = "done"
    \/ Realtime /\ stopPc = "done"

\* C4: once the termination frame is sent, if the far end sends no further
\* frame, the session still ends (with what it has accumulated); it never
\* blocks indefinitely.
C4_FinalizeTerminates == TerminationSent ~> (AttemptOver \/ ~SilentSinceTermination)

\* C5: every attempt ends with a transcript or a structured failure; no
\* exception escapes recognize_audio, start_recognition or stop_recognition.
C5_StructuredOutcome ==
    /\ stopPc # "raised"
    /\ (mode = "batch" /\ bPc = "done") => bResult.kind \in { "success", "error" }
    /\ (Realtime /\ startPc = "done" /\ stopPc = "done") =>
          (finalShown # << >> \/ printed # {})

\* recognize_audio alone always returns a result dict
BatchStructuredOutcome ==
    (mode = "batch" /\ bPc = "done") => bResult.kind \in { "success", "error" }

\* C6: when the user presses 'e' in main_async while the session is
\* Streaming, stop_recognition sends a termination frame on the session's
\* transport.
C6_StopSendsTermination ==
    (mode = "main_async" /\ eWhileStreaming /\ stopPc = "done") => TerminationSent

\* Why: main_async awaits start_recognition, so stop_recognition never runs
\* while a session of main_async is in progress, and finds no transport
MainAsyncStopsOnlyAfterStart ==
    mode = "main_async" =>
        /\ stopPc \in { "idle", "done" }
        /\ ~TerminationSent

\* An error response was among the frames read after the handshake answer,
\* up to the n-th frame read
ErrorReadInStreaming(n) == \E k \in 2..n : IsErrorFrame(srvLog[k])

\* C7: once a ServerErrorResponse is read during Streaming, no further
\* audio frame is sent and the attempt does not end in a successful
\* transcript.
C7_ErrorStopsStreaming ==
    /\ \A k \in 1..Len(sent) :
          CarriesAudio(sent[k]) => ~ErrorReadInStreaming(sent[k].nread)
    /\ bResult.kind = "success" => ~ErrorReadInStreaming(nRead)

\* C8: when an attempt returns, its transport is closed; no send is called
\* on it afterwards; an attempt opens one connection at most.
C8_TransportClosedOnExit ==
    /\ connects <= 1
    /\ ~lateSend
    /\ (Realtime /\ startPc = "done") => (wsState # "open" /\ ~ws)
    /\ (mode = "batch" /\ bPc = "done") => wsState # "open"

\* An attempt that got its connection, failed the handshake and returned
\* with the transport closed
C8_Witness ==
    /\ Realtime
    /\ startPc = "done"
    /\ connects = 1
    /\ wsState = "closed"
    /\ "init_failed" \in printed

(***************************************************************************)
(* Claims about the ordering of frames                                     *)
(***************************************************************************)
\* C14: in a realtime session, under every interleaving of the sender, the
\* receiver and stop_recognition, the termination frame is the last frame
\* sent: nothing, and in particular no audio frame with a positive sequence
\* number, is sent after a frame with a negative sequence number.
C14_TerminationIsLast ==
    Realtime =>
        \A k \in 1..Len(sent) :
            IsTermination(sent[k]) =>
                /\ k = Len(sent)
                /\ \A j \in (k + 1)..Len(sent) : ~IsPositiveAudio(sent[j])

\* An audio frame was sent, stop_recognition sent the termination frame
\* while the sender was suspended, and the sender has since run and ended
C14_Witness ==
    /\ mode = "api"
    /\ Len(sent) = 3
    /\ IsPositiveAudio(sent[2])
    /\ IsTermination(sent[3])
    /\ sendPc = "done"
    /\ stopPc = "done"

IsHandshake(e) == FrameType(e.frame) = FULL_CLIENT_REQUEST
IsNumbered(e) == IsHandshake(e) \/ IsPositiveAudio(e)

LastPackageRead == \E k \in 1..nRead : received[srvLog[k]].is_last_package

\* The session was streaming when stop_recognition sent the termination
\* frame; stop_recognition is in its grace period and the transport is
\* still open
Finalizing ==
    /\ Realtime
    /\ startPc = "gather"
    /\ stopPc = "sleep"
    /\ wsState = "open"
    /\ \A k \in 1..Len(sent) : IsTermination(sent[k]) => sent[k].nread >= 1

\* C16: after the termination frame is sent, the receiver keeps reading
\* until a frame flagged last arrives or the finalize timeout elapses, so
\* that every result emitted in between is reconciled.
C16_ReceiverReadsWhileFinalizing ==
    (Finalizing /\ ~LastPackageRead) => recvPc # "done"

\* What the code does: once stop_recognition has cleared recognition_active
\* the receiver reads one more frame at most
C16_AtMostOneFrameAfterStop ==
    Realtime =>
        \A k \in 1..Len(sent) :
            (IsTermination(sent[k]) /\ sent[k].nread >= 1) => nRead <= sent[k].nread + 1

\* C17: in every session the first frame sent is the FullClientRequest with
\* flags PositiveSequence and sequence number 1, it is sent once, and no
\* AudioOnlyRequest frame is sent before the first response has been read.
C17_HandshakeFirst ==
    SessionMode =>
        /\ sent # << >> =>
              /\ IsHandshake(sent[1])
              /\ FrameFlags(sent[1].frame) = POS_SEQUENCE
              /\ FrameSequence(sent[1].frame) = 1
        /\ Len(SelectSeq(sent, IsHandshake)) <= 1
        /\ \A k \in 1..Len(sent) : IsAudio(sent[k]) => sent[k].nread >= 1

\* The same where only the frames that carry audio must wait for the first
\* response: the end frame of stop_recognition is the frame that does not
C17_HandshakeFirstAudioAfterAnswer ==
    SessionMode =>
        /\ sent # << >> =>
              /\ IsHandshake(sent[1])
              /\ FrameFlags(sent[1].frame) = POS_SEQUENCE
              /\ FrameSequence(sent[1].frame) = 1
        /\ Len(SelectSeq(sent, IsHandshake)) <= 1
        /\ \A k \in 1..Len(sent) : CarriesAudio(sent[k]) => sent[k].nread >= 1

\* The audio frames recognize_audio has sent, in order
BatchAudioSent == SelectSeq(sent, IsAudio)

\* Responses read since the response to the handshake
ChunkResponsesRead == IF nRead > 0 THEN nRead - 1 ELSE 0

\* C18: batch mode is lock-step: after each audio frame exactly one
\* response is read before the next frame is sent, so the number of audio
\* frames sent minus the number of responses read since the handshake is
\* 0 or 1 at every point.
C18_BatchLockStep ==
    mode = "batch" =>
        /\ Len(BatchAudioSent) - ChunkResponsesRead \in { 0, 1 }
        /\ \A j \in 1..Len(BatchAudioSent) : BatchAudioSent[j].nread = j

\* Two chunks were sent, each after the response to the frame before it,
\* and the response to the second was read
C18_Witness ==
    /\ mode = "batch"
    /\ Len(BatchAudioSent) = 2
    /\ nRead = 3
    /\ bResult.kind = "success"

\* C19: in batch mode with K >= 1 chunks the frame of the last chunk is the
\* only one with a negative sequence number: it uses NegativeWithSequence
\* and -(K+1), and the frames of the chunks before it use PositiveSequence
\* and 2..K.
C19_BatchLastChunkNegative ==
    mode = "batch" =>
        /\ Len(BatchAudioSent) <= Len(chunks_of(audio_data))
        /\ \A j \in 1..Len(BatchAudioSent) :
              IF j < Len(chunks_of(audio_data))
              THEN /\ FrameFlags(BatchAudioSent[j].frame) = POS_SEQUENCE
                   /\ FrameSequence(BatchAudioSent[j].frame) = j + 1
              ELSE /\ FrameFlags(BatchAudioSent[j].frame) = NEG_WITH_SEQUENCE
                   /\ FrameSequence(BatchAudioSent[j].frame) = -(Len(chunks_of(audio_data)) + 1)
        /\ \A k \in 1..Len(sent) : FrameSequence(sent[k].frame) < 0 => k = Len(sent)
        /\ bResult.kind = "success" => FrameSequence(sent[Len(sent)].frame) < 0

\* Audio of two chunks was sent: sequence 2, then -3 on the last
C19_Witness ==
    /\ mode = "batch"
    /\ Len(chunks_of(audio_data)) = 2
    /\ Len(BatchAudioSent) = 2
    /\ FrameSequence(BatchAudioSent[1].frame) = 2
    /\ FrameSequence(BatchAudioSent[2].frame) = -3
    /\ bPc = "done"

\* The session is streaming, a frame of the far end is waiting and the
\* receiver is suspended in recv
FramePendingForReceiver ==
    /\ Realtime
    /\ Streaming
    /\ recognition_active
    /\ wsState = "open"
    /\ recvPc = "recv"
    /\ inbox # << >>

\* C20: in realtime Streaming the receiver makes progress while the sender
\* waits for the next audio segment: the sender's wait for audio is a
\* suspension point, so a frame that has arrived can be read.
C20_ReceiverRunsWhileSenderWaits ==
    (FramePendingForReceiver /\ sendPc = "spin") => ENABLED ReceiverFrame

\* The receiver can run whenever the sender is suspended in send or sleep
C20_ReceiverRunsWhileSenderSleeps ==
    (FramePendingForReceiver /\ sendPc # "spin") => ENABLED ReceiverFrame

(***************************************************************************)
(* Claims about the audio segments and the two halves of a session         *)
(***************************************************************************)
\* The audio segments the realtime session has sent, in send order
SentChunks ==
    [ i \in 1..Len(SelectSeq(sent, CarriesAudio)) |->
        gzip_decompress(FramePayload(SelectSeq(sent, CarriesAudio)[i].frame)).data ]

\* The segments the audio source has delivered, in capture order
CapturedChunks == [ i \in 1..produced |-> << i >> ]

\* stop_recognition was called while the session was streaming and has
\* returned, and so has start_recognition
StoppedWhileStreaming ==
    /\ mode = "api"
    /\ startPc = "done"
    /\ stopPc = "done"
    /\ \E k \in 1..Len(sent) : IsTermination(sent[k]) /\ sent[k].nread >= 1

\* C21: every audio segment the audio source produces during a realtime
\* session is sent in exactly one audio frame, in capture order; none is
\* sent twice and none is left unsent when the session ends.
C21_SegmentsConsumedOnce ==
    /\ mode = "api" =>
          \A i \in 1..Len(SentChunks) : SentChunks[i] = CapturedChunks[i]
    /\ StoppedWhileStreaming => SentChunks = CapturedChunks

\* The half the code keeps: what is sent is sent once and in capture order
C21_SentInCaptureOrder ==
    mode = "api" =>
        /\ Len(SentChunks) <= produced
        /\ \A i \in 1..Len(SentChunks) : SentChunks[i] = CapturedChunks[i]

\* C22: when stop_recognition runs while start_recognition is in progress,
\* under every interleaving of the two, stop_recognition never calls
\* close() on a transport that was already released (self.ws is None): it
\* never fails with an unhandled exception.
C22_StopNeverClosesReleasedTransport ==
    Realtime => ~(stopPc = "raised" /\ ~ws)

\* The receiving loop of the realtime session has ended although the
\* session was not stopped and the connection is open
ReceiverGaveUp ==
    /\ mode = "api"
    /\ recvPc = "done"
    /\ recognition_active
    /\ wsState = "open"
    /\ stopPc = "idle"

\* The batch attempt has failed on a frame it read: the connection was made
\* and the general exception handler has built the result
BatchFailedOnFrame ==
    /\ mode = "batch"
    /\ connects = 1
    /\ bResult.error = "exception"

\* C23: during Streaming a malformed inbound frame (too short, truncated
\* prefix, unexpected payload shape) is skipped: the realtime receiving loop
\* does not end on it and the batch attempt does not fail on it.
C23_MalformedFrameSkipped ==
    /\ ~ReceiverGaveUp
    /\ ~BatchFailedOnFrame

\* The frames of the malformed kinds that decode to nothing are skipped:
\* only a payload of an unexpected shape ends the loop.
C23_UndecodableFrameSkipped ==
    /\ ReceiverGaveUp => \E k \in 2..nRead : srvLog[k] = BYTES_FRAME
    /\ BatchFailedOnFrame => \E k \in 2..nRead : srvLog[k] = BYTES_FRAME

\* A result frame read and processed after a too-short or truncated frame
C23_SkippedThenProcessed ==
    /\ mode = "api"
    /\ nRead = 3
    /\ srvLog[2] \in { SHORT_FRAME, TRUNC_FRAME }
    /\ srvLog[3] = RES_A
    /\ recognized_text # << >>

(***************************************************************************)
(* Decode failures (checked under SpecCodec)                               *)
(***************************************************************************)
\* The structural fields of a parsed frame are those its flags and its
\* prefix dictate
StructuralAsDictated(result, a) ==
    /\ "error" \notin result.keys
    /\ "is_last_package" \in result.keys
    /\ result.is_last_package = (BitAnd(a.flags, 2) # 0)
    /\ ("payload_sequence" \in result.keys) = (BitAnd(a.flags, 1) # 0)
    /\ BitAnd(a.flags, 1) # 0 => result.payload_sequence = -2
    /\ ("code" \in result.keys) = (a.message_type = SERVER_ERROR_RESPONSE)
    /\ a.message_type = SERVER_ERROR_RESPONSE => result.code = SERVER_CODE

\* The frame contributes nothing to the transcript and does not end the loop
LeavesTranscript(result) ==
    /\ "payload_msg" \notin result.keys
    /\ ResponseText(result) = << >>
    /\ ~ProcessingRaises(result)

\* C24: a payload that fails to decompress or to parse as JSON is not fatal:
\* parse_response returns a result with "parse_error", the sequence number,
\* the last-package flag and the error code as the frame dictates, without
\* payload_msg, and the frame changes nothing in the transcript.
C24_DecodeFailureNonFatal ==
    /\ (cPc = "parsed" /\ ~cArgs.damaged /\ cArgs.message_type \in ServerTypes
           /\ ~PayloadDecodes(cArgs)) => "parse_error" \in cRes.keys
    /\ (cPc = "parsed" /\ "parse_error" \in cRes.keys)
          => StructuralAsDictated(cRes, cArgs) /\ LeavesTranscript(cRes)
    /\ (cPc = "parsed" /\ "parse_error" \in cResB.keys)
          => StructuralAsDictated(cResB, cArgs) /\ LeavesTranscript(cResB)

\* A complete last error frame with a sequence number whose payload is no
\* JSON text
C24_Witness ==
    /\ cPc = "parsed"
    /\ ~cArgs.damaged
    /\ cArgs.message_type = SERVER_ERROR_RESPONSE
    /\ cArgs.flags = NEG_WITH_SEQUENCE
    /\ cArgs.serial_method = JSON
    /\ cArgs.compression_type = GZIP
    /\ "parse_error" \in cRes.keys
    /\ cRes.is_last_package
    /\ cRes.payload_sequence = -2
    /\ cRes.code = SERVER_CODE

\* parse_response reports a decode error
ReportsDecodeError(result) ==
    "error" \in result.keys \/ "parse_error" \in result.keys

\* C25: parse_response reports a decode error for every input shorter than 4
\* bytes and for every frame cut short of what its prefix and size field
\* declare; a truncated frame is never returned as an error-free result.
C25_TruncationReported ==
    /\ (cPc = "parsed" /\ Len(cFrame) < 4)
          => ReportsDecodeError(cRes) /\ ReportsDecodeError(cResB)
    /\ (cPc = "parsed" /\ cArgs.damaged /\ cArgs.message_type \in ServerTypes)
          => ReportsDecodeError(cRes) /\ ReportsDecodeError(cResB)

\* The part about inputs shorter than 4 bytes
C25_ShortInputReported ==
    (cPc = "parsed" /\ Len(cFrame) < 4)
        => "error" \in cRes.keys /\ "error" \in cResB.keys

\* A ServerAck frame decoded in full: the acked sequence, the payload size
\* and the payload, decompressed and deserialised
AckDecoded(result) ==
    /\ "seq" \in result.keys
    /\ result.seq = SERVER_CODE
    /\ "payload_msg" \in result.keys
    /\ result.payload_size = DeclaredLength
    /\ result.payload_msg.raw = cArgs.data
    /\ cArgs.serial_method = JSON => result.payload_msg.kind = "json"

\* C26: for a ServerAck frame each decoder, the one of the realtime tool and
\* the one of the batch tool, reads 4 bytes of acked sequence, 4 bytes of
\* payload size and the payload, and returns the payload decoded.
C26_ServerAckDecoded ==
    (cPc = "parsed" /\ WellFormedServerFrame /\ cArgs.message_type = SERVER_ACK)
        => AckDecoded(cRes) /\ AckDecoded(cResB)

\* The same for the decoder of the realtime tool alone
C26_ServerAckDecodedRealtime ==
    (cPc = "parsed" /\ WellFormedServerFrame /\ cArgs.message_type = SERVER_ACK)
        => AckDecoded(cRes)

(***************************************************************************)
(* Payloads of the frames sent (checked under Spec)                        *)
(***************************************************************************)
HasNegativeSequence(e) == FrameSequence(e.frame) < 0

\* C27: every frame sent with a negative sequence number, in a realtime
\* session and in a batch attempt, has payload size 0 and no payload bytes.
C27_NegativeFrameEmpty ==
    \A k \in 1..Len(sent) :
        HasNegativeSequence(sent[k]) =>
            /\ FramePayloadSize(sent[k].frame) = 0
            /\ FramePayload(sent[k].frame) = << >>

\* In a realtime session the frame with the negative sequence number has
\* payload size 0 and no payload bytes; in a batch attempt it is the frame
\* of the last chunk and carries that chunk compressed.
C27_NegativeFrameEmptyRealtime ==
    \A k \in 1..Len(sent) :
        HasNegativeSequence(sent[k]) =>
            IF Realtime
            THEN /\ FramePayloadSize(sent[k].frame) = 0
                 /\ FramePayload(sent[k].frame) = << >>
            ELSE /\ FramePayload(sent[k].frame)
                      = gzip_compress(chunks_of(audio_data)[Len(chunks_of(audio_data))])
                 /\ FramePayloadSize(sent[k].frame) = Len(FramePayload(sent[k].frame))

\* stop_recognition has sent its end frame after an audio frame
C27_Witness ==
    /\ Realtime
    /\ Len(sent) = 3
    /\ CarriesAudio(sent[2])
    /\ HasNegativeSequence(sent[3])
    /\ Len(sent[3].frame) = 12

\* C28: for every frame sent (handshake, audio, termination) the 4-byte
\* payload size field equals the number of payload bytes that follow it.
C28_SizeFieldIsPayloadLength ==
    \A k \in 1..Len(sent) :
        FramePayloadSize(sent[k].frame) = Len(FramePayload(sent[k].frame))

\* A realtime session has sent the handshake, an audio frame and the end
\* frame, with sizes above zero for the first two
C28_Witness ==
    /\ mode = "api"
    /\ Len(sent) = 3
    /\ IsHandshake(sent[1])
    /\ FramePayloadSize(sent[1].frame) > 0
    /\ IsPositiveAudio(sent[2])
    /\ FramePayloadSize(sent[2].frame) = Len(gzip_compress(<< 1 >>))
    /\ IsTermination(sent[3])
    /\ stopPc = "done"

RECURSIVE ConcatAll(_)
\* The concatenation of a sequence of sequences
ConcatAll(seqs) == IF seqs = << >> THEN << >> ELSE Head(seqs) \o ConcatAll(Tail(seqs))

\* The chunks of audio the batch attempt has sent, decompressed, in send order
BatchChunksSent ==
    [ j \in 1..Len(BatchAudioSent) |->
        gzip_decompress(FramePayload(BatchAudioSent[j].frame)).data ]

\* ceil(L / S) for the audio handed to recognize_audio
ChunksDue == (Len(audio_data) + segment_size - 1) \div segment_size

\* C30: batch chunking partitions the audio: recognize_audio sends ceil(L/S)
\* chunks, each but the last of exactly S (segment_size), the last not
\* empty, and the chunks in send order concatenate to the audio.  An attempt
\* that ends early has sent a prefix of that partition.
C30_ChunkingPartitionsAudio ==
    mode = "batch" =>
        /\ Len(BatchChunksSent) <= ChunksDue
        /\ \A j \in 1..Len(BatchChunksSent) :
              /\ Len(BatchChunksSent[j]) >= 1
              /\ Len(BatchChunksSent[j]) <= segment_size
              /\ j < ChunksDue => Len(BatchChunksSent[j]) = segment_size
        /\ ConcatAll(BatchChunksSent)
              = SubSeq(audio_data, 1, Len(ConcatAll(BatchChunksSent)))
        /\ bResult.kind = "success" =>
              /\ Len(BatchChunksSent) = ChunksDue
              /\ ConcatAll(BatchChunksSent) = audio_data

\* Audio of one segment and one block more was recognised: a full chunk and
\* a shorter last one
C30_Witness ==
    /\ mode = "batch"
    /\ Len(audio_data) = segment_size + 1
    /\ bResult.kind = "success"
    /\ Len(BatchChunksSent) = 2
    /\ Len(BatchChunksSent[1]) = segment_size
    /\ Len(BatchChunksSent[2]) = 1

(***************************************************************************)
(* The two decoders compared (checked under SpecCodec)                     *)
(***************************************************************************)
\* C39: parse_response of the realtime tool and parse_response of the batch
\* tool return the same result for every input shorter than 4 bytes and for
\* every input whose message type is FullServerResponse or
\* ServerErrorResponse.
C39_DecodersAgree ==
    (/\ cPc = "parsed"
     /\ \/ Len(cFrame) < 4
        \/ parse_header(cFrame).message_type
              \in { FULL_SERVER_RESPONSE, SERVER_ERROR_RESPONSE }) => cRes = cResB

\* A complete last error frame with a sequence number, decoded alike by both
C39_Witness ==
    /\ cPc = "parsed"
    /\ ~cArgs.damaged
    /\ cArgs.message_type = SERVER_ERROR_RESPONSE
    /\ cArgs.flags = NEG_WITH_SEQUENCE
    /\ "payload_msg" \in cResB.keys
    /\ cResB.payload_sequence = -2
    /\ cResB.code = SERVER_CODE
    /\ cRes = cResB

(***************************************************************************)
(* Sessions that follow one another (checked under SpecRestart)            *)
(***************************************************************************)
\* C31: no audio chunk that was captured during an earlier session, or was
\* left in the audio queue when that session stopped, is sent in a frame of
\* a later session.
C31_NoAudioFromEarlierSession ==
    Realtime =>
        \A i \in 1..Len(SentChunks) :
            \A j \in 1..Len(left_over) : SentChunks[i] # left_over[j]

(***************************************************************************)
(* The interview assistant's records, files and events                     *)
(***************************************************************************)
Assistant == mode = "web"
Finished(r) == reqs[r].accepted /\ reqs[r].pc = "done"
NamesEmitted(r) == [ i \in DOMAIN reqs[r].emitted |-> reqs[r].emitted[i].name ]

\* C33: a voice record's status is written once, from 'generating' to a
\* terminal status, and never changes again; a record marked interrupted is
\* not overwritten by the request that created it.
C33_TerminalStatusIsFinal ==
    Assistant =>
        \A id \in DOMAIN records :
            \A i \in 2..Len(records[id].written) :
                records[id].written[i].status = records[id].written[i - 1].status

\* C34: at most one voice record is generating, and current_record_id refers
\* to it whenever there is one.
C34_OneGeneratingRecord ==
    Assistant =>
        LET generating == { id \in DOMAIN records : records[id].status = "generating" } IN
        /\ Cardinality(generating) <= 1
        /\ \A id \in generating : current_record_id = id

\* C35: a request writes the status only of records of its own user and
\* emits events only to sessions of its own user.
C35_NoCrossUserEffect ==
    Assistant =>
        /\ \A id \in DOMAIN records :
               \A i \in DOMAIN records[id].written :
                   reqs[records[id].written[i].by].user_id = records[id].user_id
        /\ \A r \in Requests :
               \A i \in DOMAIN reqs[r].emitted :
                   session_user(reqs[r].emitted[i].to) = reqs[r].user_id

\* C36: when process_audio_and_generate_response has returned, the file it
\* uploaded to the remote service has been deleted there.
C36_UploadedFileDeleted ==
    Assistant =>
        \A r \in Requests : reqs[r].pc = "done" => reqs[r].remote # "uploaded"

TerminalEmitted(r) == { i \in DOMAIN reqs[r].emitted : reqs[r].emitted[i].name \in TerminalEvents /\ reqs[r].emitted[i].to = reqs[r].session }

C40_OnlyOwnRows ==
    mode = "http" =>
        \A i \in DOMAIN accessLog :
            accessLog[i].op # "not_found" => accessLog[i].owner = accessLog[i].by
====
